---- MODULE Spec2Model ----
(***************************************************************************)
(* Model of pkg/civicauth: the TokenManager of tokens.go (JWK set fetch,   *)
(* kid-to-key cache, ID token validation), its InMemoryTokenStorage and    *)
(* TokenRefreshManager.GetValidToken, and NewClient of client.go with      *)
(* Config.Validate of config.go and the methods of the Client it returns.  *)
(*                                                                         *)
(* URLs, queries, form bodies and PKCE values are strings, built as the     *)
(* code builds them (Values.Encode, RawURLEncoding) and read back as their  *)
(* receiver reads them; sha256.Sum256 is a stand-in function.               *)
(*                                                                         *)
(* A ValidateIDToken call is a sequence of steps of one goroutine; every   *)
(* access to the shared fields tm.jwkSet and tm.jwkCache, every HTTP       *)
(* round trip and every read of the clock is a step of its own, so that    *)
(* other goroutines, the provider and the clock can act in between.        *)
(*                                                                         *)
(* jwt.Parse is golang-jwt/jwt v5.3.0 (WARP.md:48): ParseUnverified, then  *)
(* the Keyfunc, then Method.Verify, then the default claims Validator      *)
(* (exp: valid iff now is before exp), then token.Valid = true.            *)
(*                                                                         *)
(* The caller's context.Context is one flag, done or not; the provider's   *)
(* JWKS is a key set it can replace between calls; IsTokenExpired computes *)
(* with Durations of a fixed width, as time.Duration has one.              *)
(***************************************************************************)
EXTENDS Integers, Sequences, FiniteSets, TLC

VARIABLES
    jwkSet,     \* tm.jwkSet: NilSet, or the key set decoded from the last successful fetch
    jwkCache,   \* tm.jwkCache: kid -> converted RSA public key (NoKey: no entry)
    now,        \* the wall clock, in ticks
    fatal,      \* the Go runtime has stopped the process (concurrent map access)
    pc,         \* per goroutine: the place its ValidateIDToken call has reached
    tok,        \* per goroutine: the idToken argument of its current (or last) call
    jwk,        \* per goroutine: local jwk of getPublicKey (NilJWK: nil)
    key,        \* per goroutine: the public key getPublicKey returned to the Keyfunc
    nfetch,     \* per goroutine: fetchJWKSet calls made by its current (or last) getPublicKey call
    refetched,  \* per goroutine: the jwk was found by the search after the forced re-fetch
    heldAtCall, \* per goroutine: tm.jwkSet was non-nil when its getPublicKey call read it
    expiredAtCall, \* per goroutine: the token's exp was already past when the call was made
    kres,       \* per goroutine: what its getPublicKey call returned (NoKeyRet: not returned yet)
    ret,        \* per goroutine: what its last ValidateIDToken call returned (NoRet: none yet)
    resolved,   \* history: kid -> the key of the first successful getPublicKey for that kid
    provider,   \* Client.provider: the metadata NewClient decoded (NilProvider: nil)
    storage,    \* InMemoryTokenStorage.tokens: userID -> token set (NoRecord: no entry)
    sres,       \* what the storage call just made by the application returned (NoSRes: none)
    last,       \* history: userID -> the token set of its last Store, NoRecord after a Delete
    gpc,        \* per goroutine: the place its GetValidToken call has reached
    guser,      \* per goroutine: the userID argument of its GetValidToken call
    gtokens,    \* per goroutine: local tokens of GetValidToken, as Retrieve returned it
    gnew,       \* per goroutine: local newTokens of GetValidToken
    gresp,      \* per goroutine: the answer to the refresh request of its call
    gret,       \* per goroutine: what its GetValidToken call returned (NoGRet: not yet)
    nreq,       \* per goroutine: refresh requests its GetValidToken call has sent
    nstore,     \* per goroutine: Store calls its GetValidToken call has made
    before,     \* per goroutine: history, the stored records when its call was made
    config,     \* the Config given to NewClient, as Validate left it (NoConfig: no call yet)
    cpc,        \* the place the NewClient call has reached
    cret,       \* what NewClient returned (NoCRet: not yet)
    ndisc,      \* discovery requests the NewClient call has sent
    given,      \* history: the Config as it was given to NewClient
    dresp,      \* history: the answer to the discovery request (NoDResp: none received)
    \* a call of GetAuthCodeURL, GetLogoutURL, CreateAuthorizationFlow,
    \* ExchangeCodeForTokens, RefreshToken or GetUserInfo on the client
    opc,        \* where the call is: "idle", "state", "pkce", "url", "send", "done"
    oname,      \* the method called
    oargs,      \* its arguments
    oflow,      \* CreateAuthorizationFlow's state, codeVerifier and codeChallenge
    oreq,       \* the HTTP request it built (NoRequest: none)
    oresp,      \* the response HTTPClient.Do returned (NoOResp: none)
    oret,       \* what it returned
    osent,      \* history: the requests it handed to HTTPClient.Do
    cancelled,  \* the context.Context the caller gave to its call is done
    served,     \* the key set the provider's JWKS URI serves at present
    ecall       \* the last IsTokenExpired call: its arguments, the clock, the result

\* The TokenRefreshManager's storage and the calls of GetValidToken.
refreshVars == <<storage, sres, last, gpc, guser, gtokens, gnew, gresp, gret,
                 nreq, nstore, before>>

\* A call on the client
opVars == <<opc, oname, oargs, oflow, oreq, oresp, oret, osent, cancelled, served, ecall>>
\* The state outside the TokenManager: no step of ValidateIDToken changes it.
appVars == <<provider, refreshVars, config, cpc, cret, ndisc, given, dresp, opVars>>

\* The client under construction
clientVars == <<provider, config, cpc, cret, ndisc, given, dresp, opVars>>

\* The TokenManager and its calls: no step of GetValidToken or of the storage
\* changes it.
tmVars == <<jwkSet, jwkCache, now, fatal, pc, tok, jwk, key, nfetch, refetched,
            heldAtCall, expiredAtCall, kres, ret, resolved>>

vars == <<jwkSet, jwkCache, now, fatal, pc, tok, jwk, key, nfetch, refetched,
          heldAtCall, expiredAtCall, kres, ret, resolved, appVars>>

-----------------------------------------------------------------------------
(* Bounds *)

\* The clock runs from tick 1 (it is past the epoch) to MaxNow.
MaxNow == 3

\* The fetch counter of a call stops counting here.
FetchCap == 3

-----------------------------------------------------------------------------
(* Values *)

\* One second of Claims.Expiry is TicksPerSec clock ticks: time.Now() is finer than exp.
TicksPerSec == 2

Goroutines == {"g1", "g2"}
Main == "g1"

\* config.Issuer and config.ClientID
Issuer == "https://auth.civic.com"
ClientID == "client-id"

Kids == {"k1", "k2"}
NoKid == "<no kid>"
Keys == {"A", "B"}
NoKey == "<nil key>"
NoExp == 0

\* nil values, of the shape of what they stand in for
NilJWK == [x5c |-> "<nil jwk>", ne |-> ""]
NilSet == [k \in Kids |-> [x5c |-> "<nil set>", ne |-> ""]]
NoClaims == [Issuer |-> "<nil>", Audience |-> "<nil>", Expiry |-> 0]
\* no return yet
NoRet == [claims |-> NoClaims, err |-> "<none>"]
NoKeyRet == [key |-> NoKey, err |-> "<none>"]

\* A JWK entry as jwkToRSAPublicKey reads it: the first x5c element ("" when the
\* chain is empty; a certificate holding RSA key A or B; bytes that are no
\* certificate) and the n/e pair ("" when one of them is empty, "ok" when both are
\* well-formed base64url). n and e are never read when x5c is non-empty.
JWKs == { [x5c |-> "certA", ne |-> ""], [x5c |-> "certB", ne |-> ""],
          [x5c |-> "garbage", ne |-> ""], [x5c |-> "", ne |-> "ok"],
          [x5c |-> "", ne |-> ""] }

\* A decoded JWKSet, by kid: the first entry of Keys with that kid (the search
\* loops stop at the first match), NilJWK when there is none.
JWKSets == [Kids -> JWKs \cup {NilJWK}]

\* What an HTTP GET of the JWKS URI yields: a decoded key set, or a failure
\* (transport error, non-200 status, unreadable or undecodable body).
FetchFailed == [k \in Kids |-> [x5c |-> "<fetch failed>", ne |-> ""]]
Responses == JWKSets \cup {FetchFailed}

\* A string that url.Parse refuses (an invalid escape).
BadURL == "%zz"

\* The provider metadata of a client: OIDCProvider as decoded from the discovery
\* document, a field the document lacks being "". An endpoint is a URL under the
\* issuer, that URL with a query of its own, a URL of another host, a string
\* that is no URL, or absent.
DefaultDocument ==
    [AuthorizationEndpoint |-> "https://auth.civic.com/authorize",
     TokenEndpoint |-> "https://auth.civic.com/token",
     UserinfoEndpoint |-> "https://auth.civic.com/userinfo",
     JwksURI |-> "https://auth.civic.com/jwks", EndSessionEndpoint |-> ""]

\* The discovery documents: the one with every endpoint under the issuer and no
\* end_session_endpoint, and those that differ from it in one endpoint.
Documents ==
    LET EndpointChoices ==
            [AuthorizationEndpoint : {"https://auth.civic.com/authorize",
                                      "https://auth.civic.com/authorize?tenant=t1",
                                      "https://evil.example/authorize"},
             TokenEndpoint : {"https://auth.civic.com/token",
                              "https://evil.example/token", BadURL},
             UserinfoEndpoint : {"https://auth.civic.com/userinfo", BadURL},
             JwksURI : {"https://auth.civic.com/jwks", ""},
             EndSessionEndpoint : {"", "https://auth.civic.com/logout"}]
    IN {d \in EndpointChoices :
           Cardinality({f \in DOMAIN d : d[f] # DefaultDocument[f]}) <= 1}
NilProvider == [AuthorizationEndpoint |-> "<nil provider>", TokenEndpoint |-> "",
                UserinfoEndpoint |-> "", JwksURI |-> "<nil provider>",
                EndSessionEndpoint |-> ""]

\* The provider metadata of the TokenManager's client: with or without a JWKS
\* URI, its other endpoints under the issuer.
Providers ==
    {d \in Documents : /\ d.AuthorizationEndpoint = "https://auth.civic.com/authorize"
                       /\ d.TokenEndpoint = "https://auth.civic.com/token"
                       /\ d.UserinfoEndpoint = "https://auth.civic.com/userinfo"
                       /\ d.EndSessionEndpoint = ""}

\* A Config: the four required strings, each empty or set (the issuer also as a
\* string that is no URL), the scopes, none or some, the HTTP client, nil or
\* given, with the Timeout that client has (0 for the nil client), and the
\* Timeout of the Config, 0 or given; timeouts in seconds.
Configs == {c \in [ClientID : {"", ClientID}, ClientSecret : {"", "secret"},
                   RedirectURL : {"", "https://app.example/callback"},
                   Issuer : {"", Issuer, BadURL},
                   Scopes : {<<>>, <<"openid">>},
                   HTTPClient : {"nil", "given"},
                   HTTPClientTimeout : {0, 5},
                   Timeout : {0, 10}] :
               c.HTTPClient = "nil" => c.HTTPClientTimeout = 0}
NoConfig == [ClientID |-> "<none>", ClientSecret |-> "", RedirectURL |-> "",
             Issuer |-> "", Scopes |-> <<>>, HTTPClient |-> "nil",
             HTTPClientTimeout |-> 0, Timeout |-> 0]

\* What the GET of the discovery document yields, as discoverProvider sees it:
\* no response (a transport error), or a status and a body: a JSON document, a
\* JSON document followed by bytes that are no JSON, or bytes that are no JSON;
\* doc is what the JSON document decodes to.
DiscoveryResponses ==
    [status : {"200"}, body : {"document", "document, then other bytes"},
     doc : Documents]
        \cup [status : {"200"}, body : {"no JSON"}, doc : {NilProvider}]
        \cup [status : {"404"}, body : {"document"}, doc : Providers]
        \cup [status : {"<no response>"}, body : {""}, doc : {NilProvider}]
NoDResp == [status |-> "<none>", body |-> ""]

\* NewClient has not returned
NoCRet == [client |-> FALSE, err |-> "<none>"]

\* User ids, "" among them (refused by the storage).
UserIDs == {"", "u1", "u2"}

\* A TokenResponse: of its fields the model keeps the access token, the refresh
\* token ("" when the JSON has none) and expires_in.
TokenSets == [AccessToken : {"a1", "a2"}, RefreshToken : {"", "r1", "r2"},
              ExpiresIn : {0, 3600}]

\* no entry in the map; a nil *TokenResponse
NoRecord == [AccessToken |-> "<none>", RefreshToken |-> "<none>", ExpiresIn |-> 0]
NoTokens == [AccessToken |-> "<nil>", RefreshToken |-> "<nil>", ExpiresIn |-> 0]

\* What the provider's token endpoint makes of a refresh request, as RefreshToken
\* sees it: no response (transport error), a status other than 200, a 200 whose
\* body is no JSON, or a 200 with a token document.
RefreshFailures == {"refresh request failed", "token refresh failed with status 400",
                    "failed to decode refresh response"}
RefreshResponses == [outcome : {"nil"}, body : TokenSets]
                        \cup [outcome : RefreshFailures, body : {NoTokens}]

\* no request made; no result yet
NoResponse == [outcome |-> "<none>", body |-> NoTokens]
NoGRet == [tokens |-> NoTokens, err |-> "<none>"]
NoSRes == [op |-> "<none>", user |-> "", tokens |-> NoTokens, err |-> "<none>"]

\* The signing methods registered in jwt v5 that tokens declare here; "" stands
\* for a token that ParseUnverified rejects (not three segments, undecodable
\* header or claims, alg absent or unregistered).
\* An idToken: declared alg, header kid, the key that made the signature, and the
\* iss, aud and exp claims (exp in seconds, NoExp: absent, which Claims.Expiry
\* reads as 0). sig names the RSA key pair that signed an RS256 or PS256 token;
\* for HS256 it is the RSA public key whose bytes keyed the HMAC (the algorithm
\* confusion attack), for none it means nothing; these and the unparseable token
\* come with one value of it.
Tokens ==
    LET Algs == {"RS256", "PS256", "HS256", "none", ""}
        TokenFields == [alg : Algs, kid : Kids \cup {NoKid}, sig : Keys,
                        iss : {Issuer, "https://evil.example"},
                        aud : {ClientID, "other-client"},
                        exp : {NoExp, 1}]
        Unparseable == [alg |-> "", kid |-> NoKid, sig |-> "A", iss |-> Issuer,
                        aud |-> ClientID, exp |-> NoExp]
    IN {t \in TokenFields : /\ t.alg \in {"HS256", "none"} => t.sig = "A"
                            /\ t.alg = "" => t = Unparseable}

\* no call in progress
NoToken == [alg |-> "", kid |-> NoKid, sig |-> "A", iss |-> "", aud |-> "", exp |-> NoExp]

\* The Claims struct filled from a token's claims.
ClaimsOf(t) == [Issuer |-> t.iss, Audience |-> t.aud, Expiry |-> t.exp]

-----------------------------------------------------------------------------
(* Pure parts *)

\* (mutant) the cache is never consulted
CacheHit_Never(cache, kid) == FALSE

\* getPublicKey: "Check cache first"
CacheHit(cache, kid) == cache[kid] # NoKey

\* (mutant) every cache miss fetches, whether or not a key set is held
NeedFetch_Always(set) == TRUE

\* getPublicKey: "Fetch JWK set if not already done"
NeedFetch(set) == set = NilSet

\* (mutant) the GET is answered whatever the URL
fetchJWKSet_AnyURL(prov, r) == r

\* fetchJWKSet, the provider answering r to a GET it receives: no provider
\* metadata is an error (line 51); a request for the URL "" is built (url.Parse
\* accepts "") and refused by the HTTP client's transport (unsupported protocol
\* scheme ""), an error of line 62; else the answer decides.
fetchJWKSet(prov, r) ==
    IF prov = NilProvider \/ prov.JwksURI = "" THEN FetchFailed ELSE r

\* (mutant) a failed fetch drops the key set held
HeldAfter_Cleared(set, r) == IF r = FetchFailed THEN NilSet ELSE r

\* tm.jwkSet after fetchJWKSet yielded r: line 79 assigns it, and every error
\* return of lines 51-77 comes before that line.
HeldAfter(set, r) == IF r = FetchFailed THEN set ELSE r

\* getPublicKey: "Find the key with matching kid" (both search loops)
FindJWK(set, kid) == set[kid]

\* (mutant) the converted key is returned but not cached
CacheStore_Skip(cache, kid, k) == cache

\* getPublicKey: "Cache the key"
CacheStore(cache, kid, k) == [cache EXCEPT ![kid] = k]

\* (mutant) an entry with neither x5c nor n and e converts to a key
jwkToRSAPublicKey_Lenient(j) ==
    IF j.x5c # ""
    THEN CASE j.x5c = "certA" -> [key |-> "A", err |-> "nil"]
           [] j.x5c = "certB" -> [key |-> "B", err |-> "nil"]
           [] OTHER -> [key |-> NoKey, err |-> "failed to parse X.509 certificate"]
    ELSE IF j.ne = ""
         THEN [key |-> "A", err |-> "nil"]
         ELSE [key |-> NoKey, err |-> "panic"]

\* jwkToRSAPublicKey: x5c first, then n and e. With x5c empty and n, e present
\* and decodable, line 176 calls SetBytes on the nil *big.Int of a fresh
\* rsa.PublicKey: a nil pointer dereference, so the call panics.
jwkToRSAPublicKey(j) ==
    IF j.x5c # ""
    THEN CASE j.x5c = "certA" -> [key |-> "A", err |-> "nil"]
           [] j.x5c = "certB" -> [key |-> "B", err |-> "nil"]
           [] OTHER -> [key |-> NoKey, err |-> "failed to parse X.509 certificate"]
    ELSE IF j.ne = ""
         THEN [key |-> NoKey, err |-> "JWK missing required parameters"]
         ELSE [key |-> NoKey, err |-> "panic"]

\* (mutant) the Keyfunc returns the key without looking at the signing method
IsSigningMethodRSA_Unchecked(alg) == TRUE

\* Keyfunc: token.Method.(*jwt.SigningMethodRSA); SigningMethodRSAPSS is another type.
IsSigningMethodRSA(alg) == alg = "RS256"

\* jwt v5 Method.Verify with the *rsa.PublicKey the Keyfunc returned: the RSA
\* methods verify the signature under it; HMAC and none refuse the key type.
MethodVerify(alg, sig, k) == alg \in {"RS256", "PS256"} /\ sig = k

\* (mutant) jwt.Parse validates no claims (jwt.WithoutClaimsValidation)
LibExpired_Off(t, clock) == FALSE

\* jwt v5 default Validator, exp: absent passes; else valid iff now.Before(exp).
LibExpired(t, clock) == t.exp # NoExp /\ ~(clock < t.exp * TicksPerSec)

\* "Validate issuer"
IssuerOK(c) == c.Issuer = Issuer

\* (mutant) the audience is not compared
AudienceOK_Any(c) == TRUE

\* "Validate audience"
AudienceOK(c) == c.Audience = ClientID

\* "Validate expiry": time.Unix(claims.Expiry, 0).Before(time.Now())
Expired(c, clock) == c.Expiry * TicksPerSec < clock

-----------------------------------------------------------------------------
(***************************************************************************)
(* Strings, URL queries and PKCE values *)
(***************************************************************************)

\* Whether s starts with p, and whether t occurs in s
HasPrefix(s, p) == Len(s) >= Len(p) /\ SubSeq(s, 1, Len(p)) = p
Contains(s, t) == \E i \in 1..(Len(s) - Len(t) + 1) : SubSeq(s, i, i + Len(t) - 1) = t

\* The index of the first c in s at or after i, 0 if there is none.
RECURSIVE IndexFrom(_, _, _)
IndexFrom(s, c, i) ==
    IF i > Len(s) THEN 0
    ELSE IF SubSeq(s, i, i) = c THEN i
    ELSE IndexFrom(s, c, i + 1)

\* strings.Join
RECURSIVE Join(_, _)
Join(elems, sep) ==
    IF elems = <<>> THEN ""
    ELSE IF Len(elems) = 1 THEN elems[1]
    ELSE elems[1] \o sep \o Join(Tail(elems), sep)

\* url.QueryEscape, for the bytes that occur: a space becomes "+", a reserved
\* byte its %XX form, an unreserved byte stays.
RECURSIVE QueryEscape(_)
QueryEscape(s) ==
    LET c == SubSeq(s, 1, 1)
        escaped == CASE c = " " -> "+"
                     [] c = ":" -> "%3A"
                     [] c = "/" -> "%2F"
                     [] c = "?" -> "%3F"
                     [] c = "&" -> "%26"
                     [] c = "=" -> "%3D"
                     [] c = "@" -> "%40"
                     [] c = "%" -> "%25"
                     [] c = "+" -> "%2B"
                     [] OTHER -> c
    IN  IF s = "" THEN "" ELSE escaped \o QueryEscape(SubSeq(s, 2, Len(s)))

\* How the receiver of a query unescapes a key or a value (url.QueryUnescape,
\* for well-formed input)
RECURSIVE QueryUnescape(_)
QueryUnescape(s) ==
    LET h == SubSeq(s, 2, 3)
        byte == CASE h = "3A" -> ":"
                  [] h = "2F" -> "/"
                  [] h = "3F" -> "?"
                  [] h = "26" -> "&"
                  [] h = "3D" -> "="
                  [] h = "40" -> "@"
                  [] h = "25" -> "%"
                  [] h = "2B" -> "+"
                  [] OTHER -> "%" \o h
    IN  IF s = "" THEN ""
        ELSE IF SubSeq(s, 1, 1) = "+" THEN " " \o QueryUnescape(SubSeq(s, 2, Len(s)))
        ELSE IF SubSeq(s, 1, 1) = "%" /\ Len(s) >= 3
             THEN byte \o QueryUnescape(SubSeq(s, 4, Len(s)))
        ELSE SubSeq(s, 1, 1) \o QueryUnescape(SubSeq(s, 2, Len(s)))

\* The keys of the url.Values the client builds, in the order of sort.Strings,
\* which is the order Values.Encode writes them in.
SortedKeys == <<"client_id", "client_secret", "code", "code_challenge",
                "code_challenge_method", "code_verifier", "grant_type",
                "id_token_hint", "login_hint", "max_age", "nonce",
                "post_logout_redirect_uri", "prompt", "redirect_uri",
                "refresh_token", "response_mode", "response_type", "scope",
                "state">>

\* url.Values.Encode of v, a function from some of the keys to their value:
\* key=value pairs, escaped, in key order, joined by "&".
RECURSIVE EncodeFrom(_, _)
EncodeFrom(v, i) ==
    IF i > Len(SortedKeys) THEN <<>>
    ELSE IF SortedKeys[i] \in DOMAIN v
         THEN <<QueryEscape(SortedKeys[i]) \o "=" \o QueryEscape(v[SortedKeys[i]])>>
                  \o EncodeFrom(v, i + 1)
         ELSE EncodeFrom(v, i + 1)
Encode(v) == Join(EncodeFrom(v, 1), "&")

\* What the receiver of a URL takes its query to be (url.Parse): what follows
\* the first "?".
RawQuery(u) ==
    IF IndexFrom(u, "?", 1) = 0 THEN ""
    ELSE SubSeq(u, IndexFrom(u, "?", 1) + 1, Len(u))

\* How the receiver reads a query (url.ParseQuery): the set of <<key, value>>
\* pairs, the query split at each "&" and each pair at its first "=".
RECURSIVE ParseQuery(_)
ParseQuery(q) ==
    LET ParsePair(kv) ==
            IF IndexFrom(kv, "=", 1) = 0 THEN <<QueryUnescape(kv), "">>
            ELSE <<QueryUnescape(SubSeq(kv, 1, IndexFrom(kv, "=", 1) - 1)),
                   QueryUnescape(SubSeq(kv, IndexFrom(kv, "=", 1) + 1, Len(kv)))>>
    IN  IF q = "" THEN {}
        ELSE IF IndexFrom(q, "&", 1) = 0 THEN {ParsePair(q)}
        ELSE {ParsePair(SubSeq(q, 1, IndexFrom(q, "&", 1) - 1))}
                 \cup ParseQuery(SubSeq(q, IndexFrom(q, "&", 1) + 1, Len(q)))

\* The alphabet of base64.RawURLEncoding (RFC 4648 section 5), without padding.
EncodeURL == "ABCDEFGHIJKLMNOPQRSTUVWXYZabcdefghijklmnopqrstuvwxyz0123456789-_"
Digit(i) == SubSeq(EncodeURL, i + 1, i + 1)

\* (mutant) base64.URLEncoding: the same, padded with "=" to a multiple of four
RECURSIVE EncodeToString_Padded(_)
EncodeToString_Padded(b) ==
    IF b = <<>> THEN ""
    ELSE IF Len(b) = 1
         THEN Digit(b[1] \div 4) \o Digit((b[1] % 4) * 16) \o "=="
    ELSE IF Len(b) = 2
         THEN Digit(b[1] \div 4) \o Digit((b[1] % 4) * 16 + b[2] \div 16)
                  \o Digit((b[2] % 16) * 4) \o "="
    ELSE Digit(b[1] \div 4) \o Digit((b[1] % 4) * 16 + b[2] \div 16)
             \o Digit((b[2] % 16) * 4 + b[3] \div 64) \o Digit(b[3] % 64)
             \o EncodeToString_Padded(SubSeq(b, 4, Len(b)))

\* base64.RawURLEncoding.EncodeToString: three bytes give four digits, a last
\* one or two bytes give two or three digits.
RECURSIVE EncodeToString(_)
EncodeToString(b) ==
    IF b = <<>> THEN ""
    ELSE IF Len(b) = 1
         THEN Digit(b[1] \div 4) \o Digit((b[1] % 4) * 16)
    ELSE IF Len(b) = 2
         THEN Digit(b[1] \div 4) \o Digit((b[1] % 4) * 16 + b[2] \div 16)
                  \o Digit((b[2] % 16) * 4)
    ELSE Digit(b[1] \div 4) \o Digit((b[1] % 4) * 16 + b[2] \div 16)
             \o Digit((b[2] % 16) * 4 + b[3] \div 64) \o Digit(b[3] % 64)
             \o EncodeToString(SubSeq(b, 4, Len(b)))

\* []byte(s) for a string of base64url digits: the ASCII code of each digit.
Bytes(s) ==
    LET Ord(c) ==
            LET i == IndexFrom(EncodeURL, c, 1) - 1
            IN  IF i < 26 THEN 65 + i
                ELSE IF i < 52 THEN 97 + (i - 26)
                ELSE IF i < 62 THEN 48 + (i - 52)
                ELSE IF i = 62 THEN 45 ELSE 95
    IN  [n \in 1..Len(s) |-> Ord(SubSeq(s, n, n))]

\* Stands for sha256.Sum256, of which the model keeps that it is a fixed
\* function from byte strings to 32 bytes that depends on every byte and its
\* place: byte j of the sum is a weighted sum of the input's bytes.
RECURSIVE WeightedSum(_, _, _)
WeightedSum(b, j, i) ==
    IF i > Len(b) THEN 0
    ELSE (b[i] * (i + j) + WeightedSum(b, j, i + 1)) % 256
Sum256(b) == [j \in 1..32 |-> (WeightedSum(b, j, 1) + 7 * j + Len(b)) % 256]

\* base64 decoding of a string of base64url digits without padding, as the
\* receiver of a challenge does it: four digits give three bytes, a last two
\* or three digits give one or two bytes.
RECURSIVE DecodeString(_)
DecodeString(s) ==
    LET v(i) == IndexFrom(EncodeURL, SubSeq(s, i, i), 1) - 1
    IN  IF Len(s) < 2 THEN <<>>
        ELSE IF Len(s) = 2 THEN <<v(1) * 4 + v(2) \div 16>>
        ELSE IF Len(s) = 3
             THEN <<v(1) * 4 + v(2) \div 16, (v(2) % 16) * 16 + v(3) \div 4>>
        ELSE <<v(1) * 4 + v(2) \div 16, (v(2) % 16) * 16 + v(3) \div 4,
               (v(3) % 4) * 64 + v(4)>> \o DecodeString(SubSeq(s, 5, Len(s)))

\* What rand.Read leaves in a buffer of n bytes, or its error: the bytes of a
\* few arithmetic progressions mod 256 stand for the random source.
OneRead(n) == [err |-> "nil", b |-> [i \in 1..n |-> (77 + i * 59) % 256]]
RandomReads(n) ==
    [err : {"nil"},
     b : {[i \in 1..n |-> (s + i * t) % 256] : s \in {0, 77, 255}, t \in {0, 1, 59}}]
        \cup {[err |-> "rand: read failed", b |-> [i \in 1..n |-> 0]]}

\* generateState, lines 85-91, r being what rand.Read did
generateState(r) ==
    IF r.err # "nil" THEN [state |-> "", err |-> r.err]
    ELSE [state |-> EncodeToString(r.b), err |-> "nil"]

\* (mutant) the challenge is the verifier ("plain" instead of S256)
Challenge_Plain(codeVerifier) == codeVerifier

\* generateCodeChallenge lines 78-79: the challenge of a verifier
Challenge(codeVerifier) == EncodeToString(Sum256(Bytes(codeVerifier)))

\* generateCodeChallenge, lines 69-82, r being what rand.Read did
generateCodeChallenge(r) ==
    IF r.err # "nil"
    THEN [codeVerifier |-> "", codeChallenge |-> "", err |-> r.err]
    ELSE [codeVerifier |-> EncodeToString(r.b),
          codeChallenge |-> Challenge(EncodeToString(r.b)), err |-> "nil"]

\* *AuthCodeURLOptions: nil, or the options
NilOpts == [nil |-> TRUE, State |-> "", Nonce |-> "", CodeChallenge |-> "",
            Prompt |-> "", MaxAge |-> 0, LoginHint |-> ""]
Options ==
    [nil : {FALSE}, State : {"", "abc"}, Nonce : {"", "n-0S6_WzA2Mj"},
     CodeChallenge : {"", "E9Melhoa2OwvFrEMTJguCHaoeK1t8URWbuGJSstw-cM"},
     Prompt : {"", "consent"}, MaxAge : {-1, 0, 60},
     LoginHint : {"", "user@example.com"}]
        \cup {NilOpts}

\* url.Values.Set under a condition: v with key k set to val when cond holds
SetIf(v, cond, k, val) == IF cond THEN (k :> val) @@ v ELSE v

\* GetAuthCodeURL lines 109-138: the url.Values of the authorization request
AuthParams(cfg, opts) ==
    LET fixed == [response_type |-> "code", client_id |-> cfg.ClientID,
                  redirect_uri |-> cfg.RedirectURL,
                  scope |-> Join(cfg.Scopes, " "), response_mode |-> "query"]
        v1 == SetIf(fixed, opts.State # "", "state", opts.State)
        v2 == SetIf(v1, opts.Nonce # "", "nonce", opts.Nonce)
        v3 == SetIf(v2, opts.CodeChallenge # "", "code_challenge", opts.CodeChallenge)
        v4 == SetIf(v3, opts.CodeChallenge # "", "code_challenge_method", "S256")
        v5 == SetIf(v4, opts.Prompt # "", "prompt", opts.Prompt)
        v6 == SetIf(v5, opts.MaxAge > 0, "max_age", ToString(opts.MaxAge))
        v7 == SetIf(v6, opts.LoginHint # "", "login_hint", opts.LoginHint)
    IN  IF opts.nil THEN fixed ELSE v7

\* GetAuthCodeURL, lines 104-142
GetAuthCodeURL(prov, cfg, opts) ==
    IF prov = NilProvider
    THEN [url |-> "", err |-> "provider not initialized"]
    ELSE [url |-> prov.AuthorizationEndpoint \o "?" \o Encode(AuthParams(cfg, opts)),
          err |-> "nil"]

\* GetLogoutURL, lines 275-296
GetLogoutURL(prov, postLogoutRedirectURI, idTokenHint) ==
    LET p1 == SetIf(<<>>, postLogoutRedirectURI # "", "post_logout_redirect_uri",
                    postLogoutRedirectURI)
        params == SetIf(p1, idTokenHint # "", "id_token_hint", idTokenHint)
    IN  IF prov = NilProvider \/ prov.EndSessionEndpoint = ""
        THEN [url |-> "", err |-> "logout endpoint not available"]
        ELSE [url |-> IF DOMAIN params # {}
                      THEN prov.EndSessionEndpoint \o "?" \o Encode(params)
                      ELSE prov.EndSessionEndpoint,
              err |-> "nil"]

\* ExchangeCodeForTokens lines 150-160: the form of the token request
ExchangeData(cfg, code, codeVerifier) ==
    SetIf([grant_type |-> "authorization_code", client_id |-> cfg.ClientID,
           client_secret |-> cfg.ClientSecret, code |-> code,
           redirect_uri |-> cfg.RedirectURL],
          codeVerifier # "", "code_verifier", codeVerifier)

\* RefreshToken lines 199-204: the form of the refresh request
RefreshData(cfg, refreshToken) ==
    [grant_type |-> "refresh_token", client_id |-> cfg.ClientID,
     client_secret |-> cfg.ClientSecret, refresh_token |-> refreshToken]

\* An *http.Request as the client builds it; none
Request(method, u, body, authorization) ==
    [method |-> method, url |-> u, body |-> body, authorization |-> authorization]
NoRequest == Request("", "", "", "")

\* Response bodies: a token document, a userinfo document, a token document
\* followed by other bytes, and bytes that are no JSON.
TokenDocument == "{\"access_token\":\"a1\",\"refresh_token\":\"r1\"}"
UserInfoDocument == "{\"sub\":\"u1\"}"

\* What HTTPClient.Do and the reading of the body yield: a transport error, or
\* a status and a body that io.ReadAll reads in full (complete) or fails on.
OpResponses ==
    [status : {"200", "400"},
     body : {TokenDocument, UserInfoDocument, TokenDocument \o " oops",
             "<html>Bad Gateway</html>"},
     complete : BOOLEAN]
        \cup {[status |-> "<no response>", body |-> "", complete |-> FALSE]}
NoOResp == [status |-> "<none>", body |-> "", complete |-> FALSE]

\* json.Unmarshal of a body into a TokenResponse or a UserInfo: the whole body
\* has to be one JSON value; a field the document lacks stays "".
NoValue == [AccessToken |-> "", RefreshToken |-> "", Sub |-> "", err |-> "<none>"]
Unmarshal(body) ==
    IF body = TokenDocument
    THEN [AccessToken |-> "a1", RefreshToken |-> "r1", Sub |-> "", err |-> "nil"]
    ELSE IF body = UserInfoDocument
    THEN [AccessToken |-> "", RefreshToken |-> "", Sub |-> "u1", err |-> "nil"]
    ELSE [NoValue EXCEPT !.err = "invalid character"]

\* The arguments of a call; what a call returns
NoArgs == [code |-> "", codeVerifier |-> "", refreshToken |-> "", accessToken |-> "",
           opts |-> NilOpts, postLogoutRedirectURI |-> "", idTokenHint |-> ""]
NoFlow == [state |-> "", codeVerifier |-> "", codeChallenge |-> ""]
NoORet == [url |-> "", state |-> "", codeVerifier |-> "", value |-> NoValue,
           err |-> "<none>"]

-----------------------------------------------------------------------------
(* State *)

\* NewTokenManager
InitTokenManager ==
    /\ jwkSet = NilSet
    /\ jwkCache = [k \in Kids |-> NoKey]
    /\ now = 1
    /\ fatal = FALSE
    /\ pc = [p \in Goroutines |-> "idle"]
    /\ tok = [p \in Goroutines |-> NoToken]
    /\ jwk = [p \in Goroutines |-> NilJWK]
    /\ key = [p \in Goroutines |-> NoKey]
    /\ nfetch = [p \in Goroutines |-> 0]
    /\ refetched = [p \in Goroutines |-> FALSE]
    /\ heldAtCall = [p \in Goroutines |-> FALSE]
    /\ expiredAtCall = [p \in Goroutines |-> FALSE]
    /\ kres = [p \in Goroutines |-> NoKeyRet]
    /\ ret = [p \in Goroutines |-> NoRet]
    /\ resolved = [k \in Kids |-> NoKey]

\* NewInMemoryTokenStorage and NewTokenRefreshManager: an empty map, no call made
InitRefresh ==
    /\ storage = [u \in UserIDs |-> NoRecord]
    /\ sres = NoSRes
    /\ last = [u \in UserIDs |-> NoRecord]
    /\ gpc = [p \in Goroutines |-> "idle"]
    /\ guser = [p \in Goroutines |-> ""]
    /\ gtokens = [p \in Goroutines |-> NoTokens]
    /\ gnew = [p \in Goroutines |-> NoTokens]
    /\ gresp = [p \in Goroutines |-> NoResponse]
    /\ gret = [p \in Goroutines |-> NoGRet]
    /\ nreq = [p \in Goroutines |-> 0]
    /\ nstore = [p \in Goroutines |-> 0]
    /\ before = [p \in Goroutines |-> [u \in UserIDs |-> NoRecord]]

\* No call on the client
InitOps ==
    /\ opc = "idle"
    /\ oname = ""
    /\ oargs = NoArgs
    /\ oflow = NoFlow
    /\ oreq = NoRequest
    /\ oresp = NoOResp
    /\ oret = NoORet
    /\ osent = <<>>
    /\ cancelled = FALSE
    /\ served = [k \in Kids |-> NilJWK]
    /\ ecall = [ExpiresIn |-> 0, issuedAt |-> 0, now |-> 0, expired |-> FALSE]

\* A client that NewClient returned
InitClient ==
    /\ InitOps
    /\ config = [ClientID |-> ClientID, ClientSecret |-> "secret",
                 RedirectURL |-> "https://app.example/callback", Issuer |-> Issuer,
                 Scopes |-> <<"openid">>, HTTPClient |-> "given",
                 HTTPClientTimeout |-> 10, Timeout |-> 10]
    /\ given = [config EXCEPT !.HTTPClientTimeout = 0]
    /\ dresp = [status |-> "200", body |-> "document"]
    /\ cpc = "ready"
    /\ cret = [client |-> TRUE, err |-> "nil"]
    /\ ndisc = 1

\* A fresh TokenManager of a client that NewClient returned: its provider
\* metadata is a document the discovery decoded, with or without a jwks_uri.
Init ==
    /\ InitTokenManager
    /\ provider \in Providers
    /\ InitRefresh
    /\ InitClient

At(p, l) == ~fatal /\ pc[p] = l
Goto(p, l) == pc' = [pc EXCEPT ![p] = l]

\* ValidateIDToken returns (nil, err)
Fail(p, e) ==
    /\ Goto(p, "done")
    /\ ret' = [ret EXCEPT ![p] = [claims |-> NoClaims, err |-> e]]

\* getPublicKey returns (nil, err); the Keyfunc and jwt.Parse pass the error on
\* and ValidateIDToken returns (nil, err) at line 213.
KeyFail(p, e) ==
    /\ kres' = [kres EXCEPT ![p] = [key |-> NoKey, err |-> e]]
    /\ Fail(p, e)

-----------------------------------------------------------------------------
(* ValidateIDToken, step by step *)

\* jwt.Parse up to the Keyfunc's call of getPublicKey: ParseUnverified, then
\* the kid of the header.
Parse(p, t) ==
    /\ At(p, "idle")
    /\ tok' = [tok EXCEPT ![p] = t]
    /\ expiredAtCall' = [expiredAtCall EXCEPT
                            ![p] = t.exp # NoExp /\ t.exp * TicksPerSec < now]
    /\ IF t.alg = ""
       THEN Fail(p, "token is malformed")
       ELSE IF t.kid = NoKid
            THEN Fail(p, "token header missing kid")
            ELSE Goto(p, "cache") /\ UNCHANGED ret
    /\ UNCHANGED appVars
    /\ UNCHANGED <<jwkSet, jwkCache, now, fatal, jwk, key, nfetch, refetched,
                   heldAtCall, kres, resolved>>

\* getPublicKey line 87: the cache lookup
CheckCache(p) ==
    /\ At(p, "cache")
    /\ IF CacheHit(jwkCache, tok[p].kid)
       THEN /\ key' = [key EXCEPT ![p] = jwkCache[tok[p].kid]]
            /\ kres' = [kres EXCEPT ![p] = [key |-> jwkCache[tok[p].kid], err |-> "nil"]]
            /\ resolved' = IF resolved[tok[p].kid] = NoKey
                           THEN [resolved EXCEPT ![tok[p].kid] = jwkCache[tok[p].kid]]
                           ELSE resolved
            /\ Goto(p, "verify")
       ELSE /\ Goto(p, "held")
            /\ UNCHANGED <<key, kres, resolved>>
    /\ UNCHANGED appVars
    /\ UNCHANGED <<jwkSet, jwkCache, now, fatal, tok, jwk, nfetch, refetched,
                   heldAtCall, expiredAtCall, ret>>

\* getPublicKey line 92: is a key set held?
CheckHeld(p) ==
    /\ At(p, "held")
    /\ heldAtCall' = [heldAtCall EXCEPT ![p] = jwkSet # NilSet]
    /\ Goto(p, IF NeedFetch(jwkSet) THEN "fetch" ELSE "find")
    /\ UNCHANGED appVars
    /\ UNCHANGED <<jwkSet, jwkCache, now, fatal, tok, jwk, key, nfetch, refetched,
                   expiredAtCall, kres, ret, resolved>>

\* fetchJWKSet called from line 93, the provider answering r. The request
\* carries ValidateIDToken's ctx (line 55): once ctx is done, HTTPClient.Do or
\* the read of the body returns its error.
Fetch(p, r) ==
    /\ At(p, "fetch")
    /\ cancelled => r = FetchFailed
    /\ nfetch' = [nfetch EXCEPT ![p] = IF @ < FetchCap THEN @ + 1 ELSE @]
    /\ jwkSet' = HeldAfter(jwkSet, fetchJWKSet(provider, r))
    /\ IF fetchJWKSet(provider, r) = FetchFailed
       THEN KeyFail(p, "failed to fetch JWK set")
       ELSE /\ Goto(p, "find")
            /\ UNCHANGED <<kres, ret>>
    /\ UNCHANGED appVars
    /\ UNCHANGED <<jwkCache, now, fatal, tok, jwk, key, refetched, heldAtCall,
                   expiredAtCall, resolved>>

\* getPublicKey lines 99-107: the first search
FindKey(p) ==
    /\ At(p, "find")
    /\ jwk' = [jwk EXCEPT ![p] = FindJWK(jwkSet, tok[p].kid)]
    /\ Goto(p, IF FindJWK(jwkSet, tok[p].kid) = NilJWK THEN "refetch" ELSE "convert")
    /\ UNCHANGED appVars
    /\ UNCHANGED <<jwkSet, jwkCache, now, fatal, tok, key, nfetch, refetched,
                   heldAtCall, expiredAtCall, kres, ret, resolved>>

\* fetchJWKSet called from line 109, the provider answering r
Refetch(p, r) ==
    /\ At(p, "refetch")
    /\ cancelled => r = FetchFailed
    /\ nfetch' = [nfetch EXCEPT ![p] = IF @ < FetchCap THEN @ + 1 ELSE @]
    /\ jwkSet' = HeldAfter(jwkSet, fetchJWKSet(provider, r))
    /\ IF fetchJWKSet(provider, r) = FetchFailed
       THEN KeyFail(p, "failed to refetch JWK set")
       ELSE /\ Goto(p, "find2")
            /\ UNCHANGED <<kres, ret>>
    /\ UNCHANGED appVars
    /\ UNCHANGED <<jwkCache, now, fatal, tok, jwk, key, refetched, heldAtCall,
                   expiredAtCall, resolved>>

\* (mutant) a kid still missing after the re-fetch is fetched for again
AfterRefetchMiss_Retry(p) == Goto(p, "refetch") /\ UNCHANGED <<kres, ret>>

\* getPublicKey lines 120-122: the kid is still missing after the re-fetch
AfterRefetchMiss(p) == KeyFail(p, "key with kid not found")

\* getPublicKey lines 113-122: the search after the re-fetch
FindKeyAgain(p) ==
    /\ At(p, "find2")
    /\ jwk' = [jwk EXCEPT ![p] = FindJWK(jwkSet, tok[p].kid)]
    /\ IF FindJWK(jwkSet, tok[p].kid) = NilJWK
       THEN /\ AfterRefetchMiss(p)
            /\ UNCHANGED refetched
       ELSE /\ Goto(p, "convert")
            /\ refetched' = [refetched EXCEPT ![p] = TRUE]
            /\ UNCHANGED <<kres, ret>>
    /\ UNCHANGED appVars
    /\ UNCHANGED <<jwkSet, jwkCache, now, fatal, tok, key, nfetch, heldAtCall,
                   expiredAtCall, resolved>>

\* getPublicKey lines 125-134: convert, cache, return. A panic of
\* jwkToRSAPublicKey unwinds through getPublicKey, jwt.Parse and ValidateIDToken
\* (none recovers): the call ends without a result, shown as the error "panic",
\* and nothing is cached.
Convert(p) ==
    /\ At(p, "convert")
    /\ LET r == jwkToRSAPublicKey(jwk[p])
           k == tok[p].kid
       IN IF r.err # "nil"
          THEN /\ KeyFail(p, r.err)
               /\ UNCHANGED <<jwkCache, key, resolved>>
          ELSE /\ jwkCache' = CacheStore(jwkCache, k, r.key)
               /\ key' = [key EXCEPT ![p] = r.key]
               /\ kres' = [kres EXCEPT ![p] = r]
               /\ resolved' = IF resolved[k] = NoKey
                              THEN [resolved EXCEPT ![k] = r.key]
                              ELSE resolved
               /\ Goto(p, "verify")
               /\ UNCHANGED ret
    /\ UNCHANGED appVars
    /\ UNCHANGED <<jwkSet, now, fatal, tok, jwk, nfetch, refetched, heldAtCall,
                   expiredAtCall>>

\* The rest of the Keyfunc (lines 204-209) and of jwt.Parse: the signing method
\* check, Method.Verify, the Validator's reading of the clock; then lines
\* 212-218.
Verify(p) ==
    /\ At(p, "verify")
    /\ IF ~IsSigningMethodRSA(tok[p].alg)
       THEN Fail(p, "unexpected signing method")
       ELSE IF ~MethodVerify(tok[p].alg, tok[p].sig, key[p])
            THEN Fail(p, "signature is invalid")
            ELSE IF LibExpired(tok[p], now)
                 THEN Fail(p, "token is expired")
                 ELSE Goto(p, "claims") /\ UNCHANGED ret
    /\ UNCHANGED appVars
    /\ UNCHANGED <<jwkSet, jwkCache, now, fatal, tok, jwk, key, nfetch, refetched,
                   heldAtCall, expiredAtCall, kres, resolved>>

\* Lines 220-253: the Claims struct, then issuer, audience, expiry
ValidateClaims(p) ==
    /\ At(p, "claims")
    /\ LET claims == ClaimsOf(tok[p])
       IN IF ~IssuerOK(claims)
          THEN Fail(p, "invalid issuer")
          ELSE IF ~AudienceOK(claims)
               THEN Fail(p, "invalid audience")
               ELSE IF Expired(claims, now)
                    THEN Fail(p, "token has expired")
                    ELSE /\ Goto(p, "done")
                         /\ ret' = [ret EXCEPT ![p] = [claims |-> claims, err |-> "nil"]]
    /\ UNCHANGED appVars
    /\ UNCHANGED <<jwkSet, jwkCache, now, fatal, tok, jwk, key, nfetch, refetched,
                   heldAtCall, expiredAtCall, kres, resolved>>

\* The caller has the result; the call's frame is gone.
Return(p) ==
    /\ At(p, "done")
    /\ Goto(p, "idle")
    /\ tok' = [tok EXCEPT ![p] = NoToken]
    /\ jwk' = [jwk EXCEPT ![p] = NilJWK]
    /\ key' = [key EXCEPT ![p] = NoKey]
    /\ nfetch' = [nfetch EXCEPT ![p] = 0]
    /\ refetched' = [refetched EXCEPT ![p] = FALSE]
    /\ heldAtCall' = [heldAtCall EXCEPT ![p] = FALSE]
    /\ expiredAtCall' = [expiredAtCall EXCEPT ![p] = FALSE]
    /\ kres' = [kres EXCEPT ![p] = NoKeyRet]
    /\ ret' = [ret EXCEPT ![p] = NoRet]
    /\ UNCHANGED appVars
    /\ UNCHANGED <<jwkSet, jwkCache, now, fatal, resolved>>

\* time passes
Tick ==
    /\ ~fatal
    /\ now < MaxNow
    /\ now' = now + 1
    /\ UNCHANGED appVars
    /\ UNCHANGED <<jwkSet, jwkCache, fatal, pc, tok, jwk, key, nfetch, refetched,
                   heldAtCall, expiredAtCall, kres, ret, resolved>>

-----------------------------------------------------------------------------
(* One caller at a time: calls of ValidateIDToken do not overlap. *)

Next ==
    \/ \E t \in Tokens : Parse(Main, t)
    \/ CheckCache(Main)
    \/ CheckHeld(Main)
    \/ \E r \in Responses : Fetch(Main, r)
    \/ FindKey(Main)
    \/ \E r \in Responses : Refetch(Main, r)
    \/ FindKeyAgain(Main)
    \/ Convert(Main)
    \/ Verify(Main)
    \/ ValidateClaims(Main)
    \/ Return(Main)
    \/ Tick

Spec == Init /\ [][Next]_vars

-----------------------------------------------------------------------------
(* Key rotation: the provider changes the key set its JWKS URI serves, between *)
(* the ValidateIDToken calls of one caller.                                    *)

\* The provider publishes the key set s.
Rotate(s) ==
    /\ pc[Main] = "idle"
    /\ served' = s
    /\ UNCHANGED <<tmVars, refreshVars, provider, config, cpc, cret, ndisc, given, dresp,
                   opc, oname, oargs, oflow, oreq, oresp, oret, osent, cancelled, ecall>>

\* A kid names one key: the key sets published have, for a kid, the certificate
\* of its key (A for the first kid, B for the second), bytes that are no
\* certificate, or no entry. The tokens are RS256 tokens signed with key A; a
\* fetch yields the key set served at the time, or fails.
NextRotate ==
    \/ \E s \in {s \in [Kids -> {[x5c |-> "certA", ne |-> ""],
                                 [x5c |-> "certB", ne |-> ""],
                                 [x5c |-> "garbage", ne |-> ""], NilJWK}] :
                    s["k1"].x5c # "certB" /\ s["k2"].x5c # "certA"} : Rotate(s)
    \/ \E t \in {t \in Tokens : t.alg = "RS256" /\ t.kid \in Kids /\ t.sig = "A"
                                /\ t.iss = Issuer /\ t.aud = ClientID /\ t.exp = 1} :
          Parse(Main, t)
    \/ CheckCache(Main)
    \/ CheckHeld(Main)
    \/ \E r \in {served, FetchFailed} : Fetch(Main, r)
    \/ FindKey(Main)
    \/ \E r \in {served, FetchFailed} : Refetch(Main, r)
    \/ FindKeyAgain(Main)
    \/ Convert(Main)
    \/ Verify(Main)
    \/ ValidateClaims(Main)
    \/ Return(Main)

SpecRotate == Init /\ [][NextRotate]_vars

-----------------------------------------------------------------------------
(* Parallel callers: two goroutines call ValidateIDToken on one TokenManager.  *)
(* TokenManager has no mutex and getPublicKey takes no lock, so nothing orders *)
(* one goroutine's access to tm.jwkCache or tm.jwkSet before another's.        *)

\* The accesses to the shared fields that goroutine p's next step makes.
ReadsCache(p) == pc[p] = "cache"
WritesCache(p) == pc[p] = "convert" /\ jwkToRSAPublicKey(jwk[p]).err = "nil"
ReadsSet(p) == pc[p] \in {"held", "find", "find2"}
WritesSet(p) == pc[p] \in {"fetch", "refetch"}

\* Two goroutines are about to access the same field, one of them writing.
DataRace ==
    \E p, q \in Goroutines :
        /\ p # q
        /\ \/ WritesCache(p) /\ (ReadsCache(q) \/ WritesCache(q))
           \/ WritesSet(p) /\ (ReadsSet(q) \/ WritesSet(q))

\* A map write that overlaps another access of the map: the runtime may detect it
\* ("fatal error: concurrent map read and map write") and stop the process; when
\* it does not, the accesses take effect in one order or the other.
MapFault ==
    /\ ~fatal
    /\ \E p, q \in Goroutines :
          p # q /\ WritesCache(p) /\ (ReadsCache(q) \/ WritesCache(q))
    /\ fatal' = TRUE
    /\ UNCHANGED appVars
    /\ UNCHANGED <<jwkSet, jwkCache, now, pc, tok, jwk, key, nfetch, refetched,
                   heldAtCall, expiredAtCall, kres, ret, resolved>>

\* The tokens and provider answers of the parallel runs: well-formed RS256 tokens
\* of the configured issuer and audience, key sets of certificates of key A.
ParResponses == [Kids -> {[x5c |-> "certA", ne |-> ""], NilJWK}] \cup {FetchFailed}

NextPar ==
    \/ \E p \in Goroutines,
          t \in {t \in Tokens : t.alg = "RS256" /\ t.kid \in Kids /\ t.sig = "A"
                                /\ t.iss = Issuer /\ t.aud = ClientID /\ t.exp = 1} :
          Parse(p, t)
    \/ \E p \in Goroutines : CheckCache(p)
    \/ \E p \in Goroutines : CheckHeld(p)
    \/ \E p \in Goroutines, r \in ParResponses : Fetch(p, r)
    \/ \E p \in Goroutines : FindKey(p)
    \/ \E p \in Goroutines, r \in ParResponses : Refetch(p, r)
    \/ \E p \in Goroutines : FindKeyAgain(p)
    \/ \E p \in Goroutines : Convert(p)
    \/ \E p \in Goroutines : Verify(p)
    \/ \E p \in Goroutines : ValidateClaims(p)
    \/ \E p \in Goroutines : Return(p)
    \/ MapFault
    \/ Tick

SpecPar == Init /\ [][NextPar]_vars

-----------------------------------------------------------------------------
(* InMemoryTokenStorage *)

\* (mutant) Store does not look at the userID
Store_NoCheck(m, u, T) == [map |-> [m EXCEPT ![u] = T], err |-> "nil"]

\* (mutant) Store leaves a record that is there in place
Store_KeepExisting(m, u, T) ==
    IF u = ""
    THEN [map |-> m, err |-> "user ID cannot be empty"]
    ELSE [map |-> IF m[u] = NoRecord THEN [m EXCEPT ![u] = T] ELSE m, err |-> "nil"]

\* InMemoryTokenStorage.Store: the map after the call, and the error returned
Store(m, u, T) ==
    IF u = ""
    THEN [map |-> m, err |-> "user ID cannot be empty"]
    ELSE [map |-> [m EXCEPT ![u] = T], err |-> "nil"]

\* (mutant) Retrieve returns the map's value without looking at "exists"
Retrieve_Unchecked(m, u) ==
    IF u = ""
    THEN [tokens |-> NoTokens, err |-> "user ID cannot be empty"]
    ELSE [tokens |-> m[u], err |-> "nil"]

\* InMemoryTokenStorage.Retrieve: the token set and the error returned
Retrieve(m, u) ==
    IF u = ""
    THEN [tokens |-> NoTokens, err |-> "user ID cannot be empty"]
    ELSE IF m[u] = NoRecord
         THEN [tokens |-> NoTokens, err |-> "tokens not found for user"]
         ELSE [tokens |-> m[u], err |-> "nil"]

\* (mutant) Delete leaves the entry in place
Delete_Keep(m, u) ==
    [map |-> m, err |-> IF u = "" THEN "user ID cannot be empty" ELSE "nil"]

\* InMemoryTokenStorage.Delete: the map after the call, and the error returned
Delete(m, u) ==
    IF u = ""
    THEN [map |-> m, err |-> "user ID cannot be empty"]
    ELSE [map |-> [m EXCEPT ![u] = NoRecord], err |-> "nil"]

\* No GetValidToken call is in progress and the application holds no storage
\* result: the callers of this part act one at a time.
Quiet == sres = NoSRes /\ \A p \in Goroutines : gpc[p] = "idle"

\* The application calls Store(u, T)
CallStore(u, T) ==
    /\ Quiet
    /\ storage' = Store(storage, u, T).map
    /\ sres' = [op |-> "Store", user |-> u, tokens |-> NoTokens,
                err |-> Store(storage, u, T).err]
    /\ last' = IF u = "" THEN last ELSE [last EXCEPT ![u] = T]
    /\ UNCHANGED <<gpc, guser, gtokens, gnew, gresp, gret, nreq, nstore, before>>
    /\ UNCHANGED <<tmVars, clientVars>>

\* The application calls Retrieve(u)
CallRetrieve(u) ==
    /\ Quiet
    /\ sres' = [op |-> "Retrieve", user |-> u, tokens |-> Retrieve(storage, u).tokens,
                err |-> Retrieve(storage, u).err]
    /\ UNCHANGED <<storage, last, gpc, guser, gtokens, gnew, gresp, gret, nreq,
                   nstore, before>>
    /\ UNCHANGED <<tmVars, clientVars>>

\* The application calls Delete(u)
CallDelete(u) ==
    /\ Quiet
    /\ storage' = Delete(storage, u).map
    /\ sres' = [op |-> "Delete", user |-> u, tokens |-> NoTokens,
                err |-> Delete(storage, u).err]
    /\ last' = IF u = "" THEN last ELSE [last EXCEPT ![u] = NoRecord]
    /\ UNCHANGED <<gpc, guser, gtokens, gnew, gresp, gret, nreq, nstore, before>>
    /\ UNCHANGED <<tmVars, clientVars>>

\* The application has the storage call's result.
StorageReturn ==
    /\ sres # NoSRes
    /\ sres' = NoSRes
    /\ UNCHANGED <<storage, last, gpc, guser, gtokens, gnew, gresp, gret, nreq,
                   nstore, before>>
    /\ UNCHANGED <<tmVars, clientVars>>

-----------------------------------------------------------------------------
(* TokenRefreshManager.GetValidToken, step by step. Its storage is a         *)
(* TokenStorage: the InMemoryTokenStorage, or an implementation around it    *)
(* whose Store can fail, the records staying as they were.                   *)

\* url.Parse, as http.NewRequestWithContext calls it, accepts the string
\* (it accepts "" and relative references).
URLParses(u) == u # BadURL

\* (mutant) a refresh is attempted whatever the stored refresh token
NeedsRefresh_Always(t) == TRUE

\* GetValidToken line 342: tokens.RefreshToken != ""
NeedsRefresh(t) == t.RefreshToken # ""

\* (mutant) the error of RefreshToken is not looked at
RefreshFailed_Ignored(a) == FALSE

\* RefreshToken returned (nil, err): the request failed, the status was not 200,
\* or the body did not decode.
RefreshFailed(a) == a.outcome # "nil"

\* (mutant) the new token set is taken as the provider sent it
MergeRefreshToken_Drop(new, old) == new

\* GetValidToken lines 349-352: "If no new refresh token was provided, keep the
\* old one"
MergeRefreshToken(new, old) ==
    IF new.RefreshToken = ""
    THEN [new EXCEPT !.RefreshToken = old.RefreshToken]
    ELSE new

\* (mutant) the new token set is returned whatever Store said
StoreResult_IgnoreError(err, new) == [tokens |-> new, err |-> "nil"]

\* GetValidToken lines 354-359: what is returned after Store returned err
StoreResult(err, new) ==
    IF err # "nil"
    THEN [tokens |-> NoTokens, err |-> "failed to store refreshed tokens"]
    ELSE [tokens |-> new, err |-> "nil"]

\* GetValidToken returns
GDone(p, r) ==
    /\ gpc' = [gpc EXCEPT ![p] = "done"]
    /\ gret' = [gret EXCEPT ![p] = r]

\* Lines 334-342 and 362: Retrieve, then the look at the refresh token
GetValidToken(p, u) ==
    /\ gpc[p] = "idle"
    /\ sres = NoSRes
    /\ guser' = [guser EXCEPT ![p] = u]
    /\ before' = [before EXCEPT ![p] = storage]
    /\ LET r == Retrieve(storage, u)
       IN IF r.err # "nil"
          THEN /\ GDone(p, [tokens |-> NoTokens, err |-> r.err])
               /\ UNCHANGED gtokens
          ELSE /\ gtokens' = [gtokens EXCEPT ![p] = r.tokens]
               /\ IF NeedsRefresh(r.tokens)
                  THEN /\ gpc' = [gpc EXCEPT ![p] = "refresh"]
                       /\ UNCHANGED gret
                  ELSE GDone(p, [tokens |-> r.tokens, err |-> "nil"])
    /\ UNCHANGED <<storage, sres, last, gnew, gresp, nreq, nstore>>
    /\ UNCHANGED <<tmVars, clientVars>>

\* Lines 344-352: Client.RefreshToken builds its request and, if it could, sends
\* it, the provider answering a; then the merge of the refresh token
RefreshToken(p, a) ==
    /\ gpc[p] = "refresh"
    /\ cancelled => RefreshFailed(a)
    /\ IF ~URLParses(provider.TokenEndpoint)
       THEN /\ GDone(p, [tokens |-> NoTokens, err |-> "failed to refresh token"])
            /\ UNCHANGED <<nreq, gresp, gnew>>
       ELSE /\ nreq' = [nreq EXCEPT ![p] = @ + 1]
            /\ gresp' = [gresp EXCEPT ![p] = a]
            /\ IF RefreshFailed(a)
               THEN /\ GDone(p, [tokens |-> NoTokens, err |-> "failed to refresh token"])
                    /\ UNCHANGED gnew
               ELSE /\ gnew' = [gnew EXCEPT ![p] = MergeRefreshToken(a.body, gtokens[p])]
                    /\ gpc' = [gpc EXCEPT ![p] = "store"]
                    /\ UNCHANGED gret
    /\ UNCHANGED <<storage, sres, last, guser, gtokens, nstore, before>>
    /\ UNCHANGED <<tmVars, clientVars>>

\* Lines 354-359: Store of the new token set (failing before it writes, or the
\* in-memory Store), then the return
StoreRefreshed(p, fails) ==
    /\ gpc[p] = "store"
    /\ nstore' = [nstore EXCEPT ![p] = @ + 1]
    /\ LET r == IF fails
                THEN [map |-> storage, err |-> "storage failure"]
                ELSE Store(storage, guser[p], gnew[p])
       IN /\ storage' = r.map
          /\ last' = IF fails THEN last ELSE [last EXCEPT ![guser[p]] = gnew[p]]
          /\ GDone(p, StoreResult(r.err, gnew[p]))
    /\ UNCHANGED <<sres, guser, gtokens, gnew, gresp, nreq, before>>
    /\ UNCHANGED <<tmVars, clientVars>>

\* The caller has the result; the call's frame is gone.
GReturn(p) ==
    /\ gpc[p] = "done"
    /\ gpc' = [gpc EXCEPT ![p] = "idle"]
    /\ guser' = [guser EXCEPT ![p] = ""]
    /\ gtokens' = [gtokens EXCEPT ![p] = NoTokens]
    /\ gnew' = [gnew EXCEPT ![p] = NoTokens]
    /\ gresp' = [gresp EXCEPT ![p] = NoResponse]
    /\ gret' = [gret EXCEPT ![p] = NoGRet]
    /\ nreq' = [nreq EXCEPT ![p] = 0]
    /\ nstore' = [nstore EXCEPT ![p] = 0]
    /\ before' = [before EXCEPT ![p] = [u \in UserIDs |-> NoRecord]]
    /\ UNCHANGED <<storage, sres, last>>
    /\ UNCHANGED <<tmVars, clientVars>>

\* One caller at a time: storage calls and GetValidToken calls do not overlap.
NextRefresh ==
    \/ \E u \in UserIDs, T \in TokenSets : CallStore(u, T)
    \/ \E u \in UserIDs : CallRetrieve(u)
    \/ \E u \in UserIDs : CallDelete(u)
    \/ StorageReturn
    \/ \E u \in UserIDs : GetValidToken(Main, u)
    \/ \E a \in RefreshResponses : RefreshToken(Main, a)
    \/ \E fails \in BOOLEAN : StoreRefreshed(Main, fails)
    \/ GReturn(Main)

\* The client of the TokenRefreshManager: one as in Init, or one whose discovery
\* document gave a token endpoint that is no URL.
InitRefreshManager ==
    /\ InitTokenManager
    /\ provider \in {d \in Documents :
                         /\ d.AuthorizationEndpoint = "https://auth.civic.com/authorize"
                         /\ d.TokenEndpoint \in {"https://auth.civic.com/token", BadURL}
                         /\ d.UserinfoEndpoint = "https://auth.civic.com/userinfo"
                         /\ d.JwksURI = "https://auth.civic.com/jwks"
                         /\ d.EndSessionEndpoint = ""}
    /\ InitRefresh
    /\ InitClient

SpecRefresh == InitRefreshManager /\ [][NextRefresh]_vars

-----------------------------------------------------------------------------
(* Parallel callers: two goroutines call GetValidToken on one                *)
(* TokenRefreshManager. GetValidToken takes no lock, per user or other, and   *)
(* InMemoryTokenStorage has no mutex around its map.                          *)

\* Two Store calls write the map at once: the runtime may detect it ("fatal
\* error: concurrent map writes") and stop the process; when it does not, the
\* writes take effect in one order or the other.
StoreFault ==
    /\ ~fatal
    /\ \E p, q \in Goroutines : p # q /\ gpc[p] = "store" /\ gpc[q] = "store"
    /\ fatal' = TRUE
    /\ UNCHANGED <<jwkSet, jwkCache, now, pc, tok, jwk, key, nfetch, refetched,
                   heldAtCall, expiredAtCall, kres, ret, resolved>>
    /\ UNCHANGED appVars

\* The application stores a record with a refresh token for a user; then the
\* goroutines call GetValidToken, the provider answering a refresh with a new
\* token set, with one that has no refresh token, or not at all.
NextRefreshPar ==
    \/ ~fatal /\ \E u \in {"u1", "u2"} :
                    CallStore(u, [AccessToken |-> "a1", RefreshToken |-> "r1",
                                  ExpiresIn |-> 3600])
    \/ ~fatal /\ StorageReturn
    \/ ~fatal /\ \E p \in Goroutines, u \in {"u1", "u2"} : GetValidToken(p, u)
    \/ ~fatal /\ \E p \in Goroutines,
                    a \in {r \in RefreshResponses :
                              \/ r.outcome = "refresh request failed"
                              \/ /\ r.outcome = "nil"
                                 /\ r.body.ExpiresIn = 3600
                                 /\ <<r.body.AccessToken, r.body.RefreshToken>>
                                       \in {<<"a2", "r2">>, <<"a1", "">>}} :
                    RefreshToken(p, a)
    \/ ~fatal /\ \E p \in Goroutines, fails \in BOOLEAN : StoreRefreshed(p, fails)
    \/ ~fatal /\ \E p \in Goroutines : GReturn(p)
    \/ StoreFault

SpecRefreshPar == InitRefreshManager /\ [][NextRefreshPar]_vars

-----------------------------------------------------------------------------
(* NewClient *)

\* (mutant) Validate does not look at the issuer
Validate_NoIssuerCheck(c) ==
    [config |-> c,
     err |-> IF c.ClientID = "" THEN "client ID is required"
             ELSE IF c.ClientSecret = "" THEN "client secret is required"
             ELSE IF c.RedirectURL = "" THEN "redirect URL is required"
             ELSE "nil"]

\* (mutant) Validate leaves the HTTP client's own timeout as it is
Validate_KeepClientTimeout(c) ==
    IF c.ClientID = "" THEN [config |-> c, err |-> "client ID is required"]
    ELSE IF c.ClientSecret = "" THEN [config |-> c, err |-> "client secret is required"]
    ELSE IF c.RedirectURL = "" THEN [config |-> c, err |-> "redirect URL is required"]
    ELSE IF c.Issuer = "" THEN [config |-> c, err |-> "issuer URL is required"]
    ELSE [config |-> [c EXCEPT
                        !.Scopes = IF Len(@) = 0
                                   THEN <<"openid", "profile", "email">> ELSE @,
                        !.HTTPClient = IF @ = "nil" THEN "default" ELSE @,
                        !.Timeout = IF @ = 0 THEN 30 ELSE @],
          err |-> "nil"]

\* Config.Validate: the error returned and the Config as the call leaves it (the
\* defaults are filled in only once the four required fields have passed; the
\* HTTP client's timeout is then set to Timeout).
Validate(c) ==
    IF c.ClientID = "" THEN [config |-> c, err |-> "client ID is required"]
    ELSE IF c.ClientSecret = "" THEN [config |-> c, err |-> "client secret is required"]
    ELSE IF c.RedirectURL = "" THEN [config |-> c, err |-> "redirect URL is required"]
    ELSE IF c.Issuer = "" THEN [config |-> c, err |-> "issuer URL is required"]
    ELSE [config |-> [c EXCEPT
                        !.Scopes = IF Len(@) = 0
                                   THEN <<"openid", "profile", "email">> ELSE @,
                        !.HTTPClient = IF @ = "nil" THEN "default" ELSE @,
                        !.HTTPClientTimeout = IF c.Timeout = 0 THEN 30 ELSE c.Timeout,
                        !.Timeout = IF @ = 0 THEN 30 ELSE @],
          err |-> "nil"]

\* No client yet, no NewClient call made
InitNewClient ==
    /\ InitTokenManager
    /\ InitRefresh
    /\ provider = NilProvider
    /\ config = NoConfig
    /\ given = NoConfig
    /\ dresp = NoDResp
    /\ InitOps
    /\ cpc = "idle"
    /\ cret = NoCRet
    /\ ndisc = 0

\* NewClient lines 24-30: Validate, then the Client value
NewClient(c) ==
    /\ cpc = "idle"
    /\ given' = c
    /\ config' = Validate(c).config
    /\ IF Validate(c).err # "nil"
       THEN /\ cret' = [client |-> FALSE, err |-> "invalid config"]
            /\ cpc' = "done"
       ELSE /\ cpc' = "discover"
            /\ UNCHANGED cret
    /\ UNCHANGED <<provider, ndisc, dresp>>
    /\ UNCHANGED <<tmVars, refreshVars, opVars>>

\* json.NewDecoder(body).Decode reads the first JSON value of the body and does
\* not look at what follows it.
DecoderAccepts(body) == body \in {"document", "document, then other bytes"}

\* (mutant) a failed discovery is tried again
DiscoveryFailed_Retry(e) ==
    /\ cpc' = "discover"
    /\ UNCHANGED cret

\* NewClient lines 33-35: discoverProvider returned an error
DiscoveryFailed(e) ==
    /\ cpc' = "done"
    /\ cret' = [client |-> FALSE, err |-> "failed to discover provider"]

\* NewClient lines 32-37: discoverProvider builds its request and, if it could,
\* sends it, the provider answering a.
discoverProvider(a) ==
    /\ cpc = "discover"
    /\ IF ~URLParses(config.Issuer)
       THEN /\ DiscoveryFailed("failed to create request")
            /\ UNCHANGED <<provider, ndisc, dresp>>
       ELSE /\ ndisc' = ndisc + 1
            /\ dresp' = [status |-> a.status, body |-> a.body]
            /\ IF a.status = "<no response>"
               THEN /\ DiscoveryFailed("failed to fetch provider metadata")
                    /\ UNCHANGED provider
               ELSE IF a.status # "200"
                    THEN /\ DiscoveryFailed("provider metadata request failed")
                         /\ UNCHANGED provider
                    ELSE IF ~DecoderAccepts(a.body)
                         THEN /\ DiscoveryFailed("failed to decode provider metadata")
                              /\ UNCHANGED provider
                         ELSE /\ provider' = a.doc
                              /\ cret' = [client |-> TRUE, err |-> "nil"]
                              /\ cpc' = "done"
    /\ UNCHANGED <<config, given>>
    /\ UNCHANGED <<tmVars, refreshVars, opVars>>

\* The caller has NewClient's result: a client, which it goes on to use, or an
\* error, after which it may call NewClient again.
NewClientReturn ==
    /\ cpc = "done"
    /\ IF cret.client
       THEN /\ cpc' = "ready"
            /\ UNCHANGED <<config, given, cret, ndisc, provider, dresp>>
       ELSE /\ cpc' = "idle"
            /\ config' = NoConfig
            /\ given' = NoConfig
            /\ cret' = NoCRet
            /\ ndisc' = 0
            /\ dresp' = NoDResp
            /\ provider' = NilProvider
    /\ UNCHANGED <<tmVars, refreshVars, opVars>>

\* The caller of the call under way cancels the context it has: the one it gave
\* to ExchangeCodeForTokens, RefreshToken, GetUserInfo or ValidateIDToken, or,
\* around NewClient, which takes none, the one it works under.
Cancel ==
    /\ ~cancelled
    /\ cpc = "discover" \/ opc = "send" \/ pc[Main] \in {"fetch", "refetch"}
    /\ cancelled' = TRUE
    /\ UNCHANGED <<tmVars, refreshVars, provider, config, cpc, cret, ndisc, given, dresp,
                   opc, oname, oargs, oflow, oreq, oresp, oret, osent, served, ecall>>

\* The caller, no call under way, goes on with a fresh context.
NewContext ==
    /\ cancelled
    /\ cpc \in {"idle", "ready"} /\ opc = "idle" /\ pc[Main] = "idle"
    /\ cancelled' = FALSE
    /\ UNCHANGED <<tmVars, refreshVars, provider, config, cpc, cret, ndisc, given, dresp,
                   opc, oname, oargs, oflow, oreq, oresp, oret, osent, served, ecall>>

NextClient ==
    \/ \E c \in Configs : NewClient(c)
    \/ \E a \in DiscoveryResponses : discoverProvider(a)
    \/ NewClientReturn


-----------------------------------------------------------------------------
(* Calls on a client that NewClient returned, one at a time *)

\* The Client's fields and the history of its construction: no call changes them.
builtVars == <<provider, config, cpc, cret, ndisc, given, dresp, cancelled, served, ecall>>

\* The words of the errors of ExchangeCodeForTokens, RefreshToken, GetUserInfo
ErrorText(name, stage) ==
    CASE name = "ExchangeCodeForTokens" ->
            (CASE stage = "create" -> "failed to create token request"
               [] stage = "do" -> "token request failed"
               [] stage = "read" -> "failed to read token response"
               [] stage = "status" -> "token exchange failed with status "
               [] OTHER -> "failed to decode token response")
      [] name = "RefreshToken" ->
            (CASE stage = "create" -> "failed to create refresh request"
               [] stage = "do" -> "refresh request failed"
               [] stage = "read" -> "failed to read refresh response"
               [] stage = "status" -> "token refresh failed with status "
               [] OTHER -> "failed to decode refresh response")
      [] OTHER ->
            (CASE stage = "create" -> "failed to create userinfo request"
               [] stage = "do" -> "userinfo request failed"
               [] stage = "read" -> "failed to read userinfo response"
               [] stage = "status" -> "userinfo request failed with status "
               [] OTHER -> "failed to decode userinfo response")

\* The call returns r
OpDone(r) ==
    /\ opc' = "done"
    /\ oret' = r

\* GetAuthCodeURL(opts)
CallGetAuthCodeURL(opts) ==
    /\ cpc = "ready"
    /\ opc = "idle"
    /\ oname' = "GetAuthCodeURL"
    /\ oargs' = [NoArgs EXCEPT !.opts = opts]
    /\ LET r == GetAuthCodeURL(provider, config, opts)
       IN  OpDone([NoORet EXCEPT !.url = r.url, !.err = r.err])
    /\ UNCHANGED <<oflow, oreq, oresp, osent>>
    /\ UNCHANGED <<tmVars, refreshVars, builtVars>>

\* GetLogoutURL(postLogoutRedirectURI, idTokenHint)
CallGetLogoutURL(postLogoutRedirectURI, idTokenHint) ==
    /\ cpc = "ready"
    /\ opc = "idle"
    /\ oname' = "GetLogoutURL"
    /\ oargs' = [NoArgs EXCEPT !.postLogoutRedirectURI = postLogoutRedirectURI,
                               !.idTokenHint = idTokenHint]
    /\ LET r == GetLogoutURL(provider, postLogoutRedirectURI, idTokenHint)
       IN  OpDone([NoORet EXCEPT !.url = r.url, !.err = r.err])
    /\ UNCHANGED <<oflow, oreq, oresp, osent>>
    /\ UNCHANGED <<tmVars, refreshVars, builtVars>>

\* CreateAuthorizationFlow is called
CallCreateAuthorizationFlow ==
    /\ cpc = "ready"
    /\ opc = "idle"
    /\ oname' = "CreateAuthorizationFlow"
    /\ opc' = "state"
    /\ UNCHANGED <<oargs, oflow, oreq, oresp, oret, osent>>
    /\ UNCHANGED <<tmVars, refreshVars, builtVars>>

\* CreateAuthorizationFlow lines 301-304: generateState, rand.Read doing r
GenerateState(r) ==
    /\ opc = "state"
    /\ LET g == generateState(r)
       IN  IF g.err # "nil"
           THEN /\ OpDone([NoORet EXCEPT !.err = "failed to generate state"])
                /\ UNCHANGED oflow
           ELSE /\ oflow' = [oflow EXCEPT !.state = g.state]
                /\ opc' = "pkce"
                /\ UNCHANGED oret
    /\ UNCHANGED <<oname, oargs, oreq, oresp, osent>>
    /\ UNCHANGED <<tmVars, refreshVars, builtVars>>

\* CreateAuthorizationFlow lines 307-310: generateCodeChallenge, rand.Read doing r
GenerateCodeChallenge(r) ==
    /\ opc = "pkce"
    /\ LET g == generateCodeChallenge(r)
       IN  IF g.err # "nil"
           THEN /\ OpDone([NoORet EXCEPT !.err = "failed to generate code challenge"])
                /\ UNCHANGED oflow
           ELSE /\ oflow' = [oflow EXCEPT !.codeVerifier = g.codeVerifier,
                                          !.codeChallenge = g.codeChallenge]
                /\ opc' = "url"
                /\ UNCHANGED oret
    /\ UNCHANGED <<oname, oargs, oreq, oresp, osent>>
    /\ UNCHANGED <<tmVars, refreshVars, builtVars>>

\* (mutant) the verifier is put where the challenge belongs
FlowOptions_Verifier(state, codeVerifier, codeChallenge) ==
    [NilOpts EXCEPT !.nil = FALSE, !.State = state, !.CodeChallenge = codeVerifier]

\* CreateAuthorizationFlow lines 313-316: the options of its GetAuthCodeURL call
FlowOptions(state, codeVerifier, codeChallenge) ==
    [NilOpts EXCEPT !.nil = FALSE, !.State = state, !.CodeChallenge = codeChallenge]

\* CreateAuthorizationFlow lines 313-323: GetAuthCodeURL and the return
FlowURL ==
    /\ opc = "url"
    /\ LET opts == FlowOptions(oflow.state, oflow.codeVerifier, oflow.codeChallenge)
           r == GetAuthCodeURL(provider, config, opts)
       IN  /\ oargs' = [oargs EXCEPT !.opts = opts]
           /\ IF r.err # "nil"
              THEN OpDone([NoORet EXCEPT !.err = "failed to generate auth URL"])
              ELSE OpDone([NoORet EXCEPT !.url = r.url, !.state = oflow.state,
                                         !.codeVerifier = oflow.codeVerifier,
                                         !.err = "nil"])
    /\ UNCHANGED <<oname, oflow, oreq, oresp, osent>>
    /\ UNCHANGED <<tmVars, refreshVars, builtVars>>

\* The first lines of ExchangeCodeForTokens, RefreshToken and GetUserInfo: the
\* provider check, then http.NewRequestWithContext for the endpoint
Prepare(name, args, req) ==
    /\ cpc = "ready"
    /\ opc = "idle"
    /\ oname' = name
    /\ oargs' = args
    /\ IF provider = NilProvider
       THEN /\ OpDone([NoORet EXCEPT !.err = "provider not initialized"])
            /\ UNCHANGED oreq
       ELSE IF ~URLParses(req.url)
            THEN /\ OpDone([NoORet EXCEPT !.err = ErrorText(name, "create")])
                 /\ UNCHANGED oreq
            ELSE /\ oreq' = req
                 /\ opc' = "send"
                 /\ UNCHANGED oret
    /\ UNCHANGED <<oflow, oresp, osent>>
    /\ UNCHANGED <<tmVars, refreshVars, builtVars>>

\* ExchangeCodeForTokens lines 146-168
CallExchangeCodeForTokens(code, codeVerifier) ==
    Prepare("ExchangeCodeForTokens",
            [NoArgs EXCEPT !.code = code, !.codeVerifier = codeVerifier],
            Request("POST", provider.TokenEndpoint,
                    Encode(ExchangeData(config, code, codeVerifier)), ""))

\* RefreshToken lines 195-212
CallRefreshToken(refreshToken) ==
    Prepare("RefreshToken", [NoArgs EXCEPT !.refreshToken = refreshToken],
            Request("POST", provider.TokenEndpoint,
                    Encode(RefreshData(config, refreshToken)), ""))

\* GetUserInfo lines 239-249
CallGetUserInfo(accessToken) ==
    Prepare("GetUserInfo", [NoArgs EXCEPT !.accessToken = accessToken],
            Request("GET", provider.UserinfoEndpoint, "", "Bearer " \o accessToken))

\* (mutant) a request that failed is sent again
TransportFailed_Retry(name) ==
    /\ opc' = "send"
    /\ UNCHANGED oret

\* Lines 170-173, 214-217, 251-254: HTTPClient.Do returned an error
TransportFailed(name) ==
    OpDone([NoORet EXCEPT !.err = ErrorText(name, "do")])

\* (mutant) the status of the response is not looked at
Receive_AnyStatus(name, a) ==
    IF ~a.complete THEN [NoORet EXCEPT !.err = ErrorText(name, "read")]
    ELSE IF Unmarshal(a.body).err # "nil"
    THEN [NoORet EXCEPT !.err = ErrorText(name, "decode")]
    ELSE [NoORet EXCEPT !.value = Unmarshal(a.body), !.err = "nil"]

\* Lines 176-190, 220-234, 257-271: io.ReadAll of the body, then the status,
\* then json.Unmarshal
Receive(name, a) ==
    IF ~a.complete THEN [NoORet EXCEPT !.err = ErrorText(name, "read")]
    ELSE IF a.status # "200"
    THEN [NoORet EXCEPT !.err = ErrorText(name, "status") \o a.status \o ": " \o a.body]
    ELSE IF Unmarshal(a.body).err # "nil"
    THEN [NoORet EXCEPT !.err = ErrorText(name, "decode")]
    ELSE [NoORet EXCEPT !.value = Unmarshal(a.body), !.err = "nil"]

\* Lines 170-190, 214-234, 251-271: HTTPClient.Do sends the request, the
\* provider answering a, and the call returns. The request carries the call's
\* ctx (lines 162, 206, 243): once ctx is done, Do returns its error, or the read
\* of the body does.
Do(a) ==
    /\ opc = "send"
    /\ cancelled => (a.status = "<no response>" \/ ~a.complete)
    /\ osent' = Append(osent, oreq)
    /\ oresp' = a
    /\ IF a.status = "<no response>"
       THEN TransportFailed(oname)
       ELSE OpDone(Receive(oname, a))
    /\ UNCHANGED <<oname, oargs, oflow, oreq>>
    /\ UNCHANGED <<tmVars, refreshVars, builtVars>>

\* The caller has the result; the call's frame is gone.
OpReturn ==
    /\ opc = "done"
    /\ opc' = "idle"
    /\ oname' = ""
    /\ oargs' = NoArgs
    /\ oflow' = NoFlow
    /\ oreq' = NoRequest
    /\ oresp' = NoOResp
    /\ oret' = NoORet
    /\ osent' = <<>>
    /\ UNCHANGED <<tmVars, refreshVars, builtVars>>

\* The calls, with their arguments
NextOps ==
    \/ \E opts \in Options : CallGetAuthCodeURL(opts)
    \/ \E u \in {"", "https://app.example/bye"},
          h \in {"", "eyJhbGciOiJSUzI1NiJ9.e30.c2ln"} : CallGetLogoutURL(u, h)
    \/ CallCreateAuthorizationFlow
    \/ \E r \in RandomReads(16) : GenerateState(r)
    \/ \E r \in RandomReads(32) : GenerateCodeChallenge(r)
    \/ FlowURL
    \/ \E v \in {"", "dBjftJeZ4CVP-mB92K27uhbUJU1p1r_wW1gFWFOEjXk"} :
          CallExchangeCodeForTokens("code-1", v)
    \/ CallRefreshToken("r1")
    \/ CallGetUserInfo("a1")
    \/ \E a \in OpResponses : Do(a)
    \/ OpReturn

\* A client that NewClient returned, whatever the discovery document it decoded
InitBuilt ==
    /\ InitTokenManager
    /\ provider \in Documents
    /\ InitRefresh
    /\ InitClient

SpecOps == InitBuilt /\ [][NextOps]_vars

-----------------------------------------------------------------------------
(* The life of a client: NewClient, then calls on the client it returned, one *)
(* at a time, each with one choice of arguments.                              *)

NextCalls ==
    \/ CallGetAuthCodeURL(NilOpts)
    \/ CallGetLogoutURL("https://app.example/bye", "")
    \/ CallCreateAuthorizationFlow
    \/ GenerateState(OneRead(16))
    \/ GenerateCodeChallenge(OneRead(32))
    \/ FlowURL
    \/ CallExchangeCodeForTokens("code-1", "")
    \/ CallRefreshToken("r1")
    \/ CallGetUserInfo("a1")
    \/ \E a \in {r \in OpResponses : r.body \in {"", TokenDocument}} : Do(a)
    \/ OpReturn

SpecClient == InitNewClient /\ [][NextClient \/ NextCalls]_vars

\* The same with a TokenManager on the client, whose ValidateIDToken is called
\* between the calls on the client: with a token of either kid, the JWKS URI
\* serving a key for the first kid or failing.
LifeResponses == {r \in Responses : r = FetchFailed \/
                                     /\ r["k1"] = [x5c |-> "certA", ne |-> ""]
                                     /\ r["k2"] = NilJWK}

\* No ValidateIDToken call is under way; the client exists and no call on it is
\* under way.
NoValidation == pc[Main] = "idle"
NoCall == cpc = "ready" /\ opc = "idle"

NextLife ==
    \/ \E c \in Configs : NewClient(c)
    \/ \E a \in DiscoveryResponses : discoverProvider(a)
    \/ NewClientReturn
    \/ NoValidation /\ CallGetAuthCodeURL(NilOpts)
    \/ NoValidation /\ CallGetLogoutURL("https://app.example/bye", "")
    \/ NoValidation /\ CallCreateAuthorizationFlow
    \/ NoValidation /\ GenerateState(OneRead(16))
    \/ NoValidation /\ GenerateCodeChallenge(OneRead(32))
    \/ NoValidation /\ FlowURL
    \/ NoValidation /\ CallExchangeCodeForTokens("code-1", "")
    \/ NoValidation /\ CallRefreshToken("r1")
    \/ NoValidation /\ CallGetUserInfo("a1")
    \/ NoValidation /\ \E a \in {r \in OpResponses : r.body \in {"", TokenDocument}} : Do(a)
    \/ NoValidation /\ OpReturn
    \/ NoCall /\ \E t \in {t \in Tokens :
                              /\ t.alg = "RS256" /\ t.sig = "A" /\ t.kid \in Kids
                              /\ t.iss = Issuer /\ t.aud = ClientID /\ t.exp = NoExp} :
                    Parse(Main, t)
    \/ NoCall /\ CheckCache(Main)
    \/ NoCall /\ CheckHeld(Main)
    \/ NoCall /\ \E r \in LifeResponses : Fetch(Main, r)
    \/ NoCall /\ FindKey(Main)
    \/ NoCall /\ \E r \in LifeResponses : Refetch(Main, r)
    \/ NoCall /\ FindKeyAgain(Main)
    \/ NoCall /\ Convert(Main)
    \/ NoCall /\ Verify(Main)
    \/ NoCall /\ ValidateClaims(Main)
    \/ NoCall /\ Return(Main)
    \/ Cancel
    \/ NewContext

SpecLife == InitNewClient /\ [][NextLife]_vars

-----------------------------------------------------------------------------
(* IsTokenExpired *)

\* time.Duration is a signed integer of 64 bits counting nanoseconds, and so is
\* the int of TokenResponse.ExpiresIn on the 64-bit builds; here both are signed
\* integers of DurationBits bits, the Duration counting clock ticks.
DurationBits == 4

\* IsTokenExpired: time.Duration(ExpiresIn) * time.Second is a product of
\* Durations, which wraps around; issuedAt.Add and time.Now().After are exact.
IsTokenExpired(tokenResp, issuedAt, clock) ==
    LET half == 2 ^ (DurationBits - 1)
        Duration(n) == ((n + half) % (2 * half)) - half
    IN IF tokenResp.ExpiresIn <= 0
       THEN FALSE
       ELSE clock > issuedAt + Duration(tokenResp.ExpiresIn * TicksPerSec)

\* The application calls IsTokenExpired(tokenResp, issuedAt)
CallIsTokenExpired(tokenResp, issuedAt) ==
    /\ ecall' = [ExpiresIn |-> tokenResp.ExpiresIn, issuedAt |-> issuedAt, now |-> now,
                 expired |-> IsTokenExpired(tokenResp, issuedAt, now)]
    /\ UNCHANGED <<tmVars, refreshVars, provider, config, cpc, cret, ndisc, given, dresp,
                   opc, oname, oargs, oflow, oreq, oresp, oret, osent, cancelled, served>>

\* Calls with every ExpiresIn the field holds from -1 up, and an issuedAt from
\* the epoch to the end of the clock's run, as time passes
NextExpiry ==
    \/ \E e \in -1 .. (2 ^ (DurationBits - 1) - 1), i \in 0 .. MaxNow :
          CallIsTokenExpired([AccessToken |-> "a1", RefreshToken |-> "",
                              ExpiresIn |-> e], i)
    \/ Tick

SpecExpiry == Init /\ [][NextExpiry]_vars

-----------------------------------------------------------------------------
(* Properties *)

\* Goroutine p's ValidateIDToken call returns in this step.
Returns(p) == pc[p] # "done" /\ pc'[p] = "done"

\* The token of p's call is RS256 and its signature verifies under the key
\* getPublicKey returned for its kid.
ValidlySigned(p) ==
    kres[p].err = "nil" /\ tok[p].alg = "RS256" /\ tok[p].sig = kres[p].key

UnknownKey == "key with kid not found"
FetchErrors == {"failed to fetch JWK set", "failed to refetch JWK set"}
ExpiredErrors == {"token is expired", "token has expired"}

\* C1: whenever a ValidateIDToken call returns, an error comes with nil claims,
\* and non-nil claims come with no error, are the token's claims, and the
\* token's signature verified under the key resolved (and cached) for its kid,
\* its iss is the configured Issuer, its aud the configured ClientID and its exp
\* is not before the clock at the return.
C1_ClaimsOnlyAfterFullValidation ==
    [][\A p \in Goroutines : Returns(p) =>
          /\ ret'[p].err # "nil" => ret'[p].claims = NoClaims
          /\ ret'[p].claims # NoClaims =>
                /\ ret'[p].err = "nil"
                /\ ret'[p].claims = ClaimsOf(tok'[p])
                /\ kres'[p].err = "nil"
                /\ kres'[p].key = jwkCache'[tok'[p].kid]
                /\ tok'[p].sig = kres'[p].key
                /\ tok'[p].iss = Issuer
                /\ tok'[p].aud = ClientID
                /\ ~(tok'[p].exp * TicksPerSec < now)]_vars

\* C1: a call has returned claims.
C1_Witness ==
    /\ pc[Main] = "done"
    /\ ret[Main].err = "nil"
    /\ ret[Main].claims = ClaimsOf(tok[Main])

\* C2: a call whose token declares anything but RS256 (here HS256, none, PS256
\* or no usable alg: every method that is not a jwt.SigningMethodRSA, which
\* covers every scheme that is not RSA) returns an error and nil claims, whatever
\* keys were served and whatever the token's signature and claims.
C2_NonRSANeverAccepted ==
    \A p \in Goroutines :
        (pc[p] = "done" /\ tok[p].alg # "RS256") =>
            ret[p].claims = NoClaims /\ ret[p].err # "nil"

\* C2: an HS256 token keyed with the very key served for its kid, with the right
\* issuer and audience and not expired, has been refused for its method.
C2_Witness ==
    /\ pc[Main] = "done"
    /\ tok[Main].alg = "HS256"
    /\ kres[Main].err = "nil"
    /\ kres[Main].key = tok[Main].sig
    /\ tok[Main].iss = Issuer /\ tok[Main].aud = ClientID
    /\ tok[Main].exp = 1 /\ now < TicksPerSec
    /\ ret[Main].err = "unexpected signing method"

\* getPublicKey has returned to p's call, every fetch it made was answered with
\* a key set, and the kid was in no key set it searched nor in the cache.
KidNowhere(p) ==
    /\ kres[p] # NoKeyRet
    /\ kres[p].key = NoKey
    /\ kres[p].err \notin FetchErrors
    /\ jwk[p] = NilJWK

\* C3 as claimed: a getPublicKey call whose kid is in no key set and not in the
\* cache fails with the unknown-key error after exactly two fetches, in any
\* state of the TokenManager.
C3_ExactlyTwoFetches ==
    \A p \in Goroutines :
        KidNowhere(p) => kres[p].err = UnknownKey /\ nfetch[p] = 2

\* C3 amended: such a call fails with the unknown-key error after exactly two
\* fetches when no key set was held at the call, and after exactly one fetch (the
\* forced re-fetch) when a key set was held.
C3_FetchesBeforeUnknownKey ==
    \A p \in Goroutines :
        KidNowhere(p) =>
            /\ kres[p].err = UnknownKey
            /\ nfetch[p] = IF heldAtCall[p] THEN 1 ELSE 2

\* C3: a call that found a key set held has failed with the unknown-key error.
C3_Witness ==
    /\ KidNowhere(Main)
    /\ heldAtCall[Main]
    /\ kres[Main].err = UnknownKey

C5_AtMostTwoFetches ==
    \A p \in Goroutines : nfetch[p] <= IF heldAtCall[p] THEN 1 ELSE 2

\* C5: a call has made two fetches.
C5_Witness == pc[Main] = "done" /\ nfetch[Main] = 2

\* C6: no step removes or replaces a cache entry, and a getPublicKey call for a
\* kid for which an earlier call succeeded returns the key of that earlier call,
\* without error and without a fetch.
C6_CachedForGood ==
    [][/\ \A k \in Kids : jwkCache[k] # NoKey => jwkCache'[k] = jwkCache[k]
       /\ \A p \in Goroutines :
            (/\ kres[p] = NoKeyRet
             /\ kres'[p] # NoKeyRet
             /\ resolved[tok[p].kid] # NoKey) =>
                /\ kres'[p] = [key |-> resolved[tok[p].kid], err |-> "nil"]
                /\ nfetch'[p] = 0]_vars

\* C6: a call got key A from the cache, without a fetch, while the key set held
\* (fetched since, for another kid) has a certificate of key B under that kid.
C6_Witness ==
    /\ pc[Main] = "done"
    /\ kres[Main] = [key |-> "A", err |-> "nil"]
    /\ nfetch[Main] = 0
    /\ jwkSet # NilSet
    /\ jwkSet[tok[Main].kid].x5c = "certB"

\* C7: no two goroutines are ever about to access tm.jwkCache, or tm.jwkSet, at
\* the same time with one of them writing.
C7_NoDataRace == ~DataRace

\* C8 as claimed, for the tokens that get as far as signature verification: a
\* token whose exp was past when the call was made fails with the token-expired
\* error, whether or not its signature is valid.
C8_ExpiredErrorWhateverSignature ==
    \A p \in Goroutines :
        (/\ pc[p] = "done"
         /\ expiredAtCall[p]
         /\ tok[p].alg = "RS256"
         /\ kres[p].err = "nil") => ret[p].err \in ExpiredErrors

\* C8 amended: a token whose exp was past when the call was made is refused (an
\* error and nil claims) whether or not its signature is valid, and with a
\* token-expired error when it is validly signed.
C8_ExpiredRefused ==
    \A p \in Goroutines :
        (pc[p] = "done" /\ expiredAtCall[p]) =>
            /\ ret[p].claims = NoClaims
            /\ ret[p].err # "nil"
            /\ ValidlySigned(p) => ret[p].err \in ExpiredErrors

\* C8: a validly signed token of another issuer, past its exp, has been refused
\* as expired.
C8_Witness ==
    /\ pc[Main] = "done"
    /\ expiredAtCall[Main]
    /\ ValidlySigned(Main)
    /\ tok[Main].iss # Issuer
    /\ ret[Main].err \in ExpiredErrors

\* C9, for the tokens whose exp was past when the call was made (the claim is
\* for every value of exp): a validly signed token whose iss is not the
\* configured Issuer fails with the issuer error, and one whose iss matches and
\* whose aud is not the configured ClientID fails with the audience error.
C9_MismatchErrors ==
    \A p \in Goroutines :
        (pc[p] = "done" /\ ValidlySigned(p) /\ expiredAtCall[p]) =>
            /\ tok[p].iss # Issuer => ret[p].err = "invalid issuer"
            /\ (tok[p].iss = Issuer /\ tok[p].aud # ClientID) =>
                   ret[p].err = "invalid audience"

\* The error of the first stage that the token of p's call fails, the stages
\* taken in the order Parse, LocateKey, VerifySignature, issuer, audience;
\* "nil" when it fails none of these.
FirstFailure(p) ==
    IF tok[p].alg = "" THEN "token is malformed"
    ELSE IF tok[p].kid = NoKid THEN "token header missing kid"
    ELSE IF kres[p].err # "nil" THEN kres[p].err
    ELSE IF tok[p].alg # "RS256" THEN "unexpected signing method"
    ELSE IF tok[p].sig # kres[p].key THEN "signature is invalid"
    ELSE IF tok[p].iss # Issuer THEN "invalid issuer"
    ELSE IF tok[p].aud # ClientID THEN "invalid audience"
    ELSE "nil"

\* C10, for the tokens whose exp was past when the call was made: the error a
\* call returns is that of the first stage its token fails, in the order Parse,
\* LocateKey, VerifySignature, issuer, audience, expiry; the token is refused as
\* expired only when it fails none of the stages before expiry.
C10_EarliestFailureWins ==
    \A p \in Goroutines :
        (pc[p] = "done" /\ expiredAtCall[p]) =>
            IF FirstFailure(p) = "nil"
            THEN ret[p].err \in ExpiredErrors
            ELSE ret[p].err = FirstFailure(p)

\* C11: when the JWKS entry found for the kid has no x5c chain and well-formed n
\* and e, getPublicKey returns a key without error (no panic) and the cache holds
\* that key under the kid.
C11_RawKeyConverted ==
    \A p \in Goroutines :
        (pc[p] = "done" /\ jwk[p].x5c = "" /\ jwk[p].ne = "ok") =>
            /\ kres[p].err = "nil"
            /\ kres[p].key \in Keys
            /\ jwkCache[tok[p].kid] = kres[p].key

\* C12: on a client whose discovery document had no jwks_uri, every
\* ValidateIDToken call returns an error and nil claims, no call panics or gets
\* past the first fetch (so the nil key set is never searched), and the key cache
\* stays empty and no key set is ever held.
C12_NoJwksURI ==
    provider.JwksURI = "" =>
        /\ ~fatal
        /\ jwkSet = NilSet
        /\ \A k \in Kids : jwkCache[k] = NoKey
        /\ \A p \in Goroutines :
              /\ pc[p] \in {"idle", "cache", "held", "fetch", "done"}
              /\ pc[p] = "done" =>
                    /\ ret[p].claims = NoClaims
                    /\ ret[p].err \notin {"nil", "panic"}

\* C12: on such a client a call with an RS256 token of the configured issuer and
\* audience, not expired, has failed at its JWKS fetch.
C12_Witness ==
    /\ provider.JwksURI = ""
    /\ pc[Main] = "done"
    /\ tok[Main].alg = "RS256" /\ tok[Main].kid \in Kids
    /\ tok[Main].iss = Issuer /\ tok[Main].aud = ClientID /\ tok[Main].exp = NoExp
    /\ nfetch[Main] = 1
    /\ ret[Main] = [claims |-> NoClaims, err |-> "failed to fetch JWK set"]

\* C13: when the refresh request of a GetValidToken call fails (no response, a
\* status other than 200, an undecodable body), the call returns an error and no
\* token set, Store is not called, and every user's stored record is what it
\* was when the call was made.
C13_RefreshFailureKeepsStorage ==
    \A p \in Goroutines :
        (gpc[p] = "done" /\ gresp[p].outcome \in RefreshFailures) =>
            /\ gret[p].err # "nil"
            /\ gret[p].tokens = NoTokens
            /\ nstore[p] = 0
            /\ storage = before[p]

\* C13: a call for a user with a stored refresh token, another user having a
\* record too, has failed on a 400 answer.
C13_Witness ==
    /\ gpc[Main] = "done"
    /\ guser[Main] = "u1"
    /\ gresp[Main].outcome = "token refresh failed with status 400"
    /\ before[Main]["u1"].RefreshToken = "r1"
    /\ before[Main]["u2"] # NoRecord
    /\ gret[Main].err = "failed to refresh token"

\* C14: when a GetValidToken call refreshed and returned a token set, that set
\* is the provider's with, for an empty refresh_token, the refresh token stored
\* before the call in its place, and with the provider's refresh token when that
\* is non-empty; and it is the record stored for the user after the call.
C14_RefreshTokenCarried ==
    \A p \in Goroutines :
        (gpc[p] = "done" /\ gresp[p].outcome = "nil" /\ gret[p].err = "nil") =>
            /\ gret[p].tokens =
                  [gresp[p].body EXCEPT !.RefreshToken =
                      IF gresp[p].body.RefreshToken = ""
                      THEN before[p][guser[p]].RefreshToken
                      ELSE gresp[p].body.RefreshToken]
            /\ gret[p].tokens.RefreshToken # ""
            /\ storage[guser[p]] = gret[p].tokens

\* C14: the provider sent no refresh token, and the record stored and the token
\* set returned carry the old one with the new access token.
C14_Witness ==
    /\ gpc[Main] = "done"
    /\ gret[Main].err = "nil"
    /\ gresp[Main].body.RefreshToken = ""
    /\ before[Main][guser[Main]] = [AccessToken |-> "a1", RefreshToken |-> "r2",
                                    ExpiresIn |-> 3600]
    /\ storage[guser[Main]] = [AccessToken |-> "a2", RefreshToken |-> "r2",
                               ExpiresIn |-> 0]
    /\ gret[Main].tokens = storage[guser[Main]]

C16_StoredBeforeReturned ==
    [][\A p \in Goroutines :
          /\ StoreRefreshed(p, TRUE) =>
                gret'[p].err # "nil" /\ gret'[p].tokens = NoTokens
          /\ (gpc[p] # "done" /\ gpc'[p] = "done" /\ nreq'[p] > 0
                /\ gret'[p].err = "nil") =>
                /\ nstore'[p] = 1
                /\ ~StoreRefreshed(p, TRUE)
                /\ gret'[p].tokens = gnew[p]
                /\ storage'[guser[p]] = gret'[p].tokens]_vars

\* C16: a call has returned the token set it stored in place of another one.
C16_Witness ==
    /\ gpc[Main] = "done"
    /\ gret[Main].err = "nil"
    /\ nstore[Main] = 1
    /\ storage[guser[Main]] = gret[Main].tokens
    /\ before[Main][guser[Main]] # storage[guser[Main]]

\* C17: a GetValidToken call for a non-empty userID without a stored record
\* fails with the storage's not-found error, sends no request, calls no Store
\* and leaves the records as they were.
C17_NoRecordNotFound ==
    \A p \in Goroutines :
        (gpc[p] # "idle" /\ guser[p] # "" /\ before[p][guser[p]] = NoRecord) =>
            /\ gpc[p] = "done"
            /\ gret[p] = [tokens |-> NoTokens, err |-> "tokens not found for user"]
            /\ nreq[p] = 0
            /\ nstore[p] = 0
            /\ storage = before[p]

\* C17: a call for u1, who has no record while u2 has one, has failed.
C17_Witness ==
    /\ gpc[Main] = "done"
    /\ guser[Main] = "u1"
    /\ storage["u1"] = NoRecord
    /\ storage["u2"] # NoRecord
    /\ gret[Main].err = "tokens not found for user"

\* The application's storage call on u returns in this step.
StorageCall(op, u) == sres = NoSRes /\ sres'.op = op /\ sres'.user = u

\* C18: for a non-empty user u, Retrieve(u) returns the token set of the last
\* Store for u when no Delete(u) followed it, and fails with not-found when u
\* was never stored or a Delete(u) came last; Delete(u) returns no error, record
\* or not; and a Store, Retrieve or Delete on u changes no other user's record.
C18_StorageRoundTrip ==
    [][\A u \in UserIDs \ {""} :
          /\ StorageCall("Retrieve", u) =>
                IF last[u] = NoRecord
                THEN /\ sres'.err = "tokens not found for user"
                     /\ sres'.tokens = NoTokens
                ELSE sres'.err = "nil" /\ sres'.tokens = last[u]
          /\ StorageCall("Delete", u) => sres'.err = "nil"
          /\ StorageCall("Store", u) => sres'.err = "nil"
          /\ (\E op \in {"Store", "Retrieve", "Delete"} : StorageCall(op, u)) =>
                \A v \in UserIDs \ {u} :
                    Retrieve(storage', v) = Retrieve(storage, v)]_vars

\* C18: Retrieve(u1) has returned u1's token set, u2 holding another one.
C18_Witness ==
    /\ sres.op = "Retrieve"
    /\ sres.user = "u1"
    /\ sres.err = "nil"
    /\ sres.tokens = last["u1"]
    /\ storage["u2"] \notin {NoRecord, sres.tokens}

\* C19: Store, Retrieve and Delete called with the empty userID return an error
\* and leave the records as they were, and no step leaves a record under the
\* empty id.
C19_EmptyUserRefused ==
    [][/\ storage'[""] = NoRecord
       /\ (\E op \in {"Store", "Retrieve", "Delete"} : StorageCall(op, "")) =>
             /\ sres'.err = "user ID cannot be empty"
             /\ sres'.tokens = NoTokens
             /\ storage' = storage]_vars

\* C19: a Store with the empty userID has been refused, records being held.
C19_Witness ==
    /\ sres.op = "Store"
    /\ sres.user = ""
    /\ sres.err = "user ID cannot be empty"
    /\ storage["u1"] # NoRecord

\* The Config of the NewClient call has one of the four required fields empty.
MissingRequired ==
    config.ClientID = "" \/ config.ClientSecret = "" \/ config.RedirectURL = ""
        \/ config.Issuer = ""

\* C20: a NewClient call whose Config has ClientID, ClientSecret, RedirectURL
\* or Issuer empty returns an error and no client and sends no discovery request;
\* no discovery request is sent, or about to be, for a Config that fails
\* validation.
C20_ValidatedBeforeDiscovery ==
    /\ (cpc # "idle" /\ MissingRequired) =>
          /\ cpc = "done"
          /\ cret = [client |-> FALSE, err |-> "invalid config"]
          /\ ndisc = 0
          /\ provider = NilProvider
    /\ (cpc = "discover" \/ ndisc > 0) => Validate(config).err = "nil"

\* C20: a Config with only the issuer missing has been refused.
C20_Witness ==
    /\ cpc = "done"
    /\ config.ClientID # "" /\ config.ClientSecret # "" /\ config.RedirectURL # ""
    /\ config.Issuer = ""
    /\ cret.err = "invalid config"
    /\ ndisc = 0

\* C21: Validate returns an error exactly when ClientID, ClientSecret,
\* RedirectURL or Issuer of the Config is empty, and then leaves the Config as
\* given; when it returns nil the Config has its Scopes as given, or openid,
\* profile, email when none were given, an HTTP client, its Timeout as given, or
\* 30 seconds when it was 0, and the HTTP client's timeout equals that Timeout.
C21_ValidateDefaults ==
    cpc # "idle" =>
        IF given.ClientID = "" \/ given.ClientSecret = "" \/ given.RedirectURL = ""
              \/ given.Issuer = ""
        THEN cret.err = "invalid config" /\ config = given
        ELSE /\ cret.err # "invalid config"
             /\ config.Scopes = IF given.Scopes = <<>>
                                THEN <<"openid", "profile", "email">>
                                ELSE given.Scopes
             /\ config.HTTPClient # "nil"
             /\ config.Timeout = IF given.Timeout = 0 THEN 30 ELSE given.Timeout
             /\ config.Timeout # 0
             /\ config.HTTPClientTimeout = config.Timeout
             /\ config.ClientID = given.ClientID
             /\ config.ClientSecret = given.ClientSecret
             /\ config.RedirectURL = given.RedirectURL
             /\ config.Issuer = given.Issuer

\* C21: a Config without scopes and Timeout, with an HTTP client that has a
\* timeout of its own, has passed Validate.
C21_Witness ==
    /\ cpc = "discover"
    /\ given.Scopes = <<>> /\ given.Timeout = 0
    /\ given.HTTPClient = "given" /\ given.HTTPClientTimeout = 5
    /\ config.Scopes = <<"openid", "profile", "email">>
    /\ config.Timeout = 30 /\ config.HTTPClientTimeout = 30

\* C22: NewClient returns a client only when the discovery request was answered
\* with status 200 and a body that is well-formed JSON, and returns an error and
\* no client when the request failed, the status was not 200 or the body was not
\* well-formed JSON; so a client that was returned has its provider metadata,
\* and no call on it returns 'provider not initialized'.
C22_ClientOnlyAfterDiscovery ==
    /\ cret.client => /\ dresp.status = "200"
                      /\ dresp.body = "document"
                      /\ provider # NilProvider
    /\ (cpc = "done" /\ (dresp.status # "200" \/ dresp.body # "document")) =>
          /\ ~cret.client
          /\ cret.err # "nil"
    /\ cpc = "ready" => provider # NilProvider
    /\ opc = "done" => oret.err # "provider not initialized"

\* C23: at most one discovery request is ever sent for a client, exactly one
\* when NewClient returned the client or failed on the answer, and once NewClient
\* has returned the client no step of any call (GetAuthCodeURL, GetLogoutURL,
\* CreateAuthorizationFlow, ExchangeCodeForTokens, RefreshToken, GetUserInfo,
\* ValidateIDToken with its JWKS fetches) changes the provider metadata or sends
\* a discovery request.
C23_DiscoveredOnce ==
    /\ [](/\ ndisc <= 1
          /\ cret.client => ndisc = 1
          /\ (cpc = "done" /\ dresp # NoDResp) => ndisc = 1)
    /\ [][cpc = "ready" =>
            /\ provider' = provider
            /\ ndisc' = ndisc
            /\ cpc' = "ready"]_vars

\* C23: on a client that NewClient returned after its one discovery request, an
\* ExchangeCodeForTokens call has been answered and the TokenManager has
\* fetched the JWKS and cached a key.
C23_Witness ==
    /\ cpc = "ready"
    /\ ndisc = 1
    /\ provider = DefaultDocument
    /\ oname = "ExchangeCodeForTokens"
    /\ opc = "done"
    /\ oret.err = "nil"
    /\ jwkSet # NilSet
    /\ jwkCache["k1"] # NoKey

\* An absolute URL under the configured issuer
UnderIssuer(u) == HasPrefix(u, config.Issuer \o "/")

\* C24: the authorization, token, userinfo and JWKS endpoints of a client that
\* NewClient returned are absolute URLs under the configured issuer, and every
\* request of ExchangeCodeForTokens, RefreshToken and GetUserInfo (which carry
\* the client secret, a refresh token or an access token) goes to a URL under
\* the configured issuer.
C24_EndpointsUnderIssuer ==
    /\ cpc = "ready" =>
          /\ UnderIssuer(provider.AuthorizationEndpoint)
          /\ UnderIssuer(provider.TokenEndpoint)
          /\ UnderIssuer(provider.UserinfoEndpoint)
          /\ UnderIssuer(provider.JwksURI)
    /\ \A i \in 1..Len(osent) : UnderIssuer(osent[i].url)
    /\ opc = "send" => UnderIssuer(oreq.url)

\* The calls that talk to the provider, and the endpoint each of them addresses
HTTPCalls == {"ExchangeCodeForTokens", "RefreshToken", "GetUserInfo"}
EndpointOf(name) ==
    IF name = "GetUserInfo" THEN provider.UserinfoEndpoint ELSE provider.TokenEndpoint

Answered == oresp.status \notin {"<none>", "<no response>"}

\* C26: a call of ExchangeCodeForTokens, RefreshToken or GetUserInfo that the
\* provider answered with a status other than 200 has returned no result and an
\* error whose text holds that status and the body of the answer, whatever the
\* body is.
C26_StatusErrorCarried ==
    (opc = "done" /\ oname \in HTTPCalls /\ Answered /\ oresp.status # "200") =>
        /\ oret.value = NoValue
        /\ oret.err # "nil"
        /\ Contains(oret.err, oresp.status)
        /\ Contains(oret.err, oresp.body)

\* C26 (as amended): a call of ExchangeCodeForTokens, RefreshToken or GetUserInfo
\* that the provider answered with a status other than 200 has returned no
\* result and an error: when the body of the answer was read in full, the
\* error that ends with the status, ": " and the body as it was received,
\* whatever the body is; when reading the body failed, the error of the read,
\* which holds neither.
C26_StatusOrReadError ==
    (opc = "done" /\ oname \in HTTPCalls /\ Answered /\ oresp.status # "200") =>
        /\ oret.value = NoValue
        /\ oret.url = ""
        /\ IF oresp.complete
           THEN oret.err = ErrorText(oname, "status") \o oresp.status \o ": "
                               \o oresp.body
           ELSE oret.err = ErrorText(oname, "read")

\* C26: an ExchangeCodeForTokens call was answered 400 with a well-formed token
\* document and returned the error that carries both.
C26_Witness ==
    /\ opc = "done"
    /\ oname = "ExchangeCodeForTokens"
    /\ oresp = [status |-> "400", body |-> TokenDocument, complete |-> TRUE]
    /\ oret.value = NoValue
    /\ Contains(oret.err, "400")
    /\ Contains(oret.err, TokenDocument)

\* The <<key, value>> pairs of the query of a URL and of a form body, as their
\* receiver reads them
QueryOf(u) == ParseQuery(RawQuery(u))
KeysOf(pairs) == {kv[1] : kv \in pairs}

\* C27: CreateAuthorizationFlow sends no request, and the URL it returns holds
\* in its query the state it returns and, with method S256, the challenge of
\* the verifier it returns, and holds the verifier nowhere; the form of an
\* ExchangeCodeForTokens request has the field code_verifier exactly when the
\* verifier argument is non-empty, with that value, and the verifier is in no
\* other field, not in the request's URL and not in a header; no RefreshToken
\* or GetUserInfo request has a code_verifier.
C27_VerifierOnlyInExchange ==
    /\ oname = "CreateAuthorizationFlow" => osent = <<>> /\ oreq = NoRequest
    /\ (opc = "done" /\ oname = "CreateAuthorizationFlow" /\ oret.err = "nil") =>
          /\ oret.state # ""
          /\ oret.codeVerifier # ""
          /\ <<"state", oret.state>> \in QueryOf(oret.url)
          /\ <<"code_challenge", Challenge(oret.codeVerifier)>> \in QueryOf(oret.url)
          /\ <<"code_challenge_method", "S256">> \in QueryOf(oret.url)
          /\ ~Contains(oret.url, oret.codeVerifier)
    /\ (oname = "ExchangeCodeForTokens" /\ oreq # NoRequest) =>
          /\ "code_verifier" \in KeysOf(ParseQuery(oreq.body))
                <=> oargs.codeVerifier # ""
          /\ \A kv \in ParseQuery(oreq.body) :
                IF kv[1] = "code_verifier"
                THEN kv[2] = oargs.codeVerifier
                ELSE oargs.codeVerifier # "" => ~Contains(kv[2], oargs.codeVerifier)
          /\ oargs.codeVerifier # "" =>
                /\ ~Contains(oreq.url, oargs.codeVerifier)
                /\ ~Contains(oreq.authorization, oargs.codeVerifier)
    /\ (oname \in {"RefreshToken", "GetUserInfo"} /\ oreq # NoRequest) =>
          "code_verifier" \notin KeysOf(ParseQuery(oreq.body))

\* C27: CreateAuthorizationFlow has returned a URL of the authorization
\* endpoint with a state and a verifier, the URL holding the state.
C27_Witness ==
    /\ opc = "done"
    /\ oname = "CreateAuthorizationFlow"
    /\ oret.err = "nil"
    /\ Len(oret.codeVerifier) = 43
    /\ HasPrefix(oret.url, "https://auth.civic.com/authorize?")
    /\ Contains(oret.url, "&state=" \o oret.state)

\* The pairs the query of an authorization URL is to hold for options o
Pair(cond, k, val) == IF cond THEN {<<k, val>>} ELSE {}
ExpectedQuery(o) ==
    {<<"response_type", "code">>, <<"client_id", config.ClientID>>,
     <<"redirect_uri", config.RedirectURL>>,
     <<"scope", Join(config.Scopes, " ")>>, <<"response_mode", "query">>}
        \cup Pair(~o.nil /\ o.State # "", "state", o.State)
        \cup Pair(~o.nil /\ o.Nonce # "", "nonce", o.Nonce)
        \cup Pair(~o.nil /\ o.Prompt # "", "prompt", o.Prompt)
        \cup Pair(~o.nil /\ o.LoginHint # "", "login_hint", o.LoginHint)
        \cup Pair(~o.nil /\ o.MaxAge > 0, "max_age", ToString(o.MaxAge))
        \cup Pair(~o.nil /\ o.CodeChallenge # "", "code_challenge", o.CodeChallenge)
        \cup Pair(~o.nil /\ o.CodeChallenge # "", "code_challenge_method", "S256")

\* C28: the query of the URL that GetAuthCodeURL returns holds response_type=code,
\* client_id, redirect_uri, scope (the configured scopes joined by a space) and
\* response_mode=query, state, nonce, prompt and login_hint each exactly when
\* the option is non-empty, max_age exactly when MaxAge > 0, code_challenge with
\* code_challenge_method=S256 exactly when CodeChallenge is non-empty, and no
\* other parameter; with nil options the five fixed parameters only.
C28_AuthURLQuery ==
    (opc = "done" /\ oname = "GetAuthCodeURL") =>
        /\ oret.err = "nil"
        /\ QueryOf(oret.url) = ExpectedQuery(oargs.opts)
        /\ oargs.opts.nil => Cardinality(QueryOf(oret.url)) = 5

\* The unreserved characters of a URL (RFC 3986 section 2.3); a string of them
Unreserved == "ABCDEFGHIJKLMNOPQRSTUVWXYZabcdefghijklmnopqrstuvwxyz0123456789-._~"
URLSafe(s) == \A i \in 1..Len(s) : Contains(Unreserved, SubSeq(s, i, i))

\* C29: the challenge that generateCodeChallenge returns with a verifier is the
\* base64url text, 43 digits without padding, of the 32 bytes of the SHA-256
\* sum of the bytes of the verifier string: decoding it gives that sum, and
\* encoding the sum gives it; so it is a function of the verifier alone.
C29_ChallengeOfVerifier ==
    (oname = "CreateAuthorizationFlow" /\ oflow.codeVerifier # "") =>
        /\ DecodeString(oflow.codeChallenge) = Sum256(Bytes(oflow.codeVerifier))
        /\ Len(oflow.codeChallenge) = 43
        /\ ~Contains(oflow.codeChallenge, "=")
        /\ URLSafe(oflow.codeChallenge)
        /\ opc = "url" =>
              \A r \in RandomReads(32) :
                  generateCodeChallenge(r).codeVerifier = oflow.codeVerifier =>
                      generateCodeChallenge(r).codeChallenge = oflow.codeChallenge

\* C29: generateCodeChallenge has returned a verifier of 43 digits and a
\* challenge that differs from it.
C29_Witness ==
    /\ oname = "CreateAuthorizationFlow"
    /\ opc = "url"
    /\ Len(oflow.codeVerifier) = 43
    /\ Len(oflow.codeChallenge) = 43
    /\ oflow.codeChallenge # oflow.codeVerifier

\* C30: every state that generateState returns and every verifier that
\* generateCodeChallenge returns is 43 to 128 characters long and made of
\* URL-safe characters.
C30_StateAndVerifierLength ==
    /\ oflow.state # "" => Len(oflow.state) \in 43..128 /\ URLSafe(oflow.state)
    /\ oflow.codeVerifier # "" =>
          Len(oflow.codeVerifier) \in 43..128 /\ URLSafe(oflow.codeVerifier)

\* C30 (as amended): every verifier that generateCodeChallenge returns is 43
\* characters long, which is within 43 to 128, every state that generateState
\* returns is 22 characters long, and both are made of URL-safe characters.
C30_VerifierLengthStateShorter ==
    /\ (oname = "CreateAuthorizationFlow" /\ opc \in {"pkce", "url"}) =>
          oflow.state # ""
    /\ (oname = "CreateAuthorizationFlow" /\ opc = "url") => oflow.codeVerifier # ""
    /\ oflow.state # "" => Len(oflow.state) = 22 /\ URLSafe(oflow.state)
    /\ oflow.codeVerifier # "" =>
          /\ Len(oflow.codeVerifier) = 43
          /\ Len(oflow.codeVerifier) \in 43..128
          /\ URLSafe(oflow.codeVerifier)

\* C30: a flow holds a state of 22 and a verifier of 43 characters, made from
\* bytes that are not all equal.
C30_Witness ==
    /\ opc = "url"
    /\ Len(oflow.state) = 22
    /\ Len(oflow.codeVerifier) = 43
    /\ Contains(oflow.state, "_")
    /\ SubSeq(oflow.codeVerifier, 1, 1) # SubSeq(oflow.codeVerifier, 2, 2)

-----------------------------------------------------------------------------
\* C31: a network operation whose caller has cancelled returns an error and
\* installs or returns no response data: the discovery of NewClient leaves no
\* provider metadata and gives no client; ExchangeCodeForTokens, RefreshToken and
\* GetUserInfo return an error and no value; a JWKS fetch leaves the held key
\* set as it was and its getPublicKey call returns an error.
C31_CancellationAborts ==
    [][cancelled =>
        /\ (cpc = "discover" /\ cpc' # "discover")
              => (~cret'.client /\ cret'.err # "nil" /\ provider' = provider)
        /\ (opc = "send" /\ opc' # "send")
              => (oret'.err # "nil" /\ oret'.value = NoValue)
        /\ (pc[Main] \in {"fetch", "refetch"} /\ pc'[Main] # pc[Main])
              => (jwkSet' = jwkSet /\ kres'[Main].err \notin {"nil", "<none>"}
                    /\ ret'[Main].err \notin {"nil", "<none>"})]_vars

-----------------------------------------------------------------------------
\* C32: IsTokenExpired returns false whenever ExpiresIn <= 0, and for every
\* positive ExpiresIn the field holds it returns true exactly when the current
\* time is strictly after issuedAt plus ExpiresIn seconds.
C32_ExpiredExactlyAfter ==
    ecall.now # 0 =>
        ecall.expired = (/\ ecall.ExpiresIn > 0
                         /\ ecall.now > ecall.issuedAt + ecall.ExpiresIn * TicksPerSec)

-----------------------------------------------------------------------------
\* C33: a ValidateIDToken call for a token whose declared algorithm is no RSA
\* signature scheme (HS256, none) never enters the key resolution: it is at no
\* step of getPublicKey, has made no JWKS fetch and has no getPublicKey result,
\* so that the held key set and the key cache are as they were.
C33_NonRSARejectedBeforeKey ==
    \A p \in Goroutines :
        tok[p].alg \in {"HS256", "none"} =>
            /\ pc[p] \notin {"cache", "held", "fetch", "find", "refetch", "find2", "convert"}
            /\ nfetch[p] = 0
            /\ kres[p] = NoKeyRet

-----------------------------------------------------------------------------
\* C34: ValidateIDToken accepts a token only if its exp is strictly after the
\* current time. The Validator of jwt.Parse lets a token on to the checks of the
\* claims only if it has an exp that is after the clock it reads, or none; a
\* validly signed token whose exp is the clock's time or earlier is refused there
\* as expired; and a token is accepted only with an exp, one not before the clock
\* of the last check.
C34_AcceptedOnlyBeforeExp ==
    [][/\ (pc[Main] = "verify" /\ pc'[Main] = "claims")
             => (tok[Main].exp = NoExp \/ now < tok[Main].exp * TicksPerSec)
       /\ (/\ pc[Main] = "verify" /\ pc'[Main] # "verify"
           /\ ValidlySigned(Main)
           /\ tok[Main].exp # NoExp /\ tok[Main].exp * TicksPerSec <= now)
             => ret'[Main].err = "token is expired"
       /\ (Returns(Main) /\ ret'[Main].err = "nil")
             => (tok[Main].exp # NoExp /\ now <= tok[Main].exp * TicksPerSec)]_vars

\* C34: a validly signed token of the configured issuer and audience, whose exp
\* is the present time to the tick, has been refused as expired.
C34_Witness ==
    /\ pc[Main] = "done"
    /\ ValidlySigned(Main)
    /\ tok[Main].iss = Issuer /\ tok[Main].aud = ClientID
    /\ tok[Main].exp # NoExp /\ tok[Main].exp * TicksPerSec = now
    /\ ret[Main].err = "token is expired"

-----------------------------------------------------------------------------
\* C35: when the JWKS entry found for the kid has no x5c chain and not both n
\* and e, getPublicKey has failed with the malformed-key error, which
\* ValidateIDToken passes on, and the cache has no entry for that kid.
C35_MalformedKeyNotCached ==
    \A p \in Goroutines :
        (pc[p] = "done" /\ jwk[p] = [x5c |-> "", ne |-> ""]) =>
            /\ kres[p] = [key |-> NoKey, err |-> "JWK missing required parameters"]
            /\ ret[p] = [claims |-> NoClaims, err |-> "JWK missing required parameters"]
            /\ jwkCache[tok[p].kid] = NoKey

\* C35: a call has found, after the forced re-fetch, an entry without key
\* material for its kid and has returned.
C35_Witness ==
    /\ pc[Main] = "done"
    /\ jwk[Main] = [x5c |-> "", ne |-> ""]
    /\ nfetch[Main] = 2
    /\ kres[Main].err = "JWK missing required parameters"

-----------------------------------------------------------------------------
\* C36: GetValidToken calls for one user are not serialized. When two calls
\* that overlap have both refreshed, stored and returned, the user's record is
\* the one the last of the two Store calls wrote.
C36_LastStoreWins ==
    (/\ \A p \in Goroutines : gpc[p] = "done" /\ nstore[p] = 1 /\ gret[p].err = "nil"
     /\ guser["g1"] = guser["g2"]) =>
        /\ storage[guser["g1"]] = last[guser["g1"]]
        /\ storage[guser["g1"]] \in {gnew[p] : p \in Goroutines}

\* C36: two overlapping calls for one user have read the same stored refresh
\* token, have each sent it to the provider, which gave them different token
\* sets, and have both stored and returned; the record is the second one's and
\* the first one's is gone.
C36_Witness ==
    /\ \A p \in Goroutines : gpc[p] = "done" /\ nstore[p] = 1 /\ gret[p].err = "nil"
                               /\ nreq[p] = 1
    /\ guser["g1"] = guser["g2"]
    /\ gtokens["g1"].RefreshToken = gtokens["g2"].RefreshToken
    /\ gtokens["g1"].RefreshToken = before["g1"][guser["g1"]].RefreshToken
    /\ before["g1"] = before["g2"]
    /\ gnew["g1"] # gnew["g2"]
    /\ storage[guser["g1"]] = gnew["g2"]

-----------------------------------------------------------------------------
\* C37: a JWKS fetch that fails leaves the held key set and the key cache as
\* they were, and its getPublicKey call returns the fetch error, which
\* ValidateIDToken passes on; no failure is ever held as a key set; and a call
\* that misses the cache while no key set is held (none fetched yet, or every
\* fetch so far failed) fetches.
C37_FailedFetchChangesNothing ==
    [][\A p \in Goroutines :
          /\ (pc[p] \in {"fetch", "refetch"} /\ pc'[p] = "done")
                => /\ jwkSet' = jwkSet
                   /\ jwkCache' = jwkCache
                   /\ kres'[p].key = NoKey
                   /\ kres'[p].err \in FetchErrors
                   /\ ret'[p] = [claims |-> NoClaims, err |-> kres'[p].err]
          /\ jwkSet' # FetchFailed
          /\ (pc[p] = "held" /\ pc'[p] # "held" /\ jwkSet = NilSet)
                => pc'[p] = "fetch"]_vars

\* C37: the forced re-fetch of a call has failed and the call has returned the
\* error, a key set being held from the fetch before.
C37_Witness ==
    /\ pc[Main] = "done"
    /\ nfetch[Main] = 2
    /\ kres[Main].err = "failed to refetch JWK set"
    /\ jwkSet # NilSet

-----------------------------------------------------------------------------
\* C38: key-rotation recovery. A getPublicKey call for a kid that missed the
\* cache (it did not return a cached key), made while the provider's JWKS has
\* well-formed key material for that kid, and none of whose fetches failed,
\* returns the key of that material, whatever the key set held from an earlier
\* fetch has for the kid.
C38_RotationRecovered ==
    LET K == tok[Main].kid
    IN (/\ pc[Main] \in {"verify", "claims", "done"}
        /\ kres[Main] # NoKeyRet
        /\ ~(kres[Main].err = "nil" /\ jwk[Main] = NilJWK)
        /\ kres[Main].err \notin FetchErrors
        /\ served[K].x5c \in {"certA", "certB"}) =>
            kres[Main] = jwkToRSAPublicKey(served[K])

-----------------------------------------------------------------------------
\* C39: against a provider that, on every successful refresh, invalidates the
\* refresh token submitted and issues another, the refresh token of the user's
\* stored record is the one the provider accepts: when a GetValidToken call,
\* whose refresh the provider answered with a new refresh token, has returned
\* (with the tokens or with an error), the stored record has that token.
C39_StoredRefreshTokenCurrent ==
    \A p \in Goroutines :
        (/\ gpc[p] = "done"
         /\ gresp[p].outcome = "nil"
         /\ gresp[p].body.RefreshToken \notin {"", gtokens[p].RefreshToken}) =>
            storage[guser[p]].RefreshToken = gresp[p].body.RefreshToken

-----------------------------------------------------------------------------
\* C40: a token set that ExchangeCodeForTokens or RefreshToken returns without
\* error has a non-empty access token, whatever the provider's answer, and so
\* has every record in the TokenRefreshManager's storage.
C40_AccessTokenNonEmpty ==
    /\ (/\ opc = "done"
        /\ oname \in {"ExchangeCodeForTokens", "RefreshToken"}
        /\ oret.err = "nil") => oret.value.AccessToken # ""
    /\ \A u \in UserIDs : storage[u] # NoRecord => storage[u].AccessToken # ""

====
